---- MODULE Spec2Model ----
(***************************************************************************)
(* A model of wlp::shared_ptr / wlp::weak_ptr (lib/wlib/wlib/stl/          *)
(* SharedPtr.h): the control block ReferenceCount, the handles SharedCount *)
(* and WeakCount, and the two facades.                                     *)
(*                                                                         *)
(* The program is single threaded: every public operation runs to its end, *)
(* temporaries included, so every operation is one action.  A control      *)
(* block is a record in rc; a shared_ptr or weak_ptr object is a slot of   *)
(* sp or wp that is either not constructed (alive = FALSE) or holds the    *)
(* two members m_pi (0 is nullptr) and m_ptr (0 is nullptr).               *)
(*                                                                         *)
(* Undefined behaviour is a choice over what a build can do, recorded in    *)
(* fault, and the model follows a run up to and including its first        *)
(* operation with undefined behaviour:                                     *)
(*  - a read through a null m_pi either traps ("trap") or reads some value *)
(*    (a member of GarbageCounts), a write through it traps or lands       *)
(*    outside the modelled memory ("null_deref");                          *)
(*  - the bytes of a freed control block are the allocator's: a dangling   *)
(*    handle reads any counts there (Mems) ("use_after_free");             *)
(*  - a use of a pointee that is already destroyed ("object_after_free");  *)
(*  - wlp::destroy on a pointee that is already destroyed                  *)
(*    ("double_dispose").                                                  *)
(***************************************************************************)
EXTENDS Integers, FiniteSets, Sequences, TLC

\* ---------------------------------------------------------------- bounds
NumShared == 2
NumWeak == 2
MaxBlocks == 2
MaxEvents == 2
MaxTrace == 4
MaxExpiredCtor == 2
NumUnique == 1
NumThreads == 2
MaxHeld == 3

\* ------------------------------------------------------ program constants
UseCountBits == 16

UseCountMod == 2 ^ UseCountBits

SharedIds == 1 .. NumShared
WeakIds == 1 .. NumWeak
UniqueIds == 1 .. NumUnique
Threads == 1 .. NumThreads
Blocks == 1 .. MaxBlocks
\* Pointee addresses: one per control block that can be created.
Pointees == 1 .. MaxBlocks
Addrs == 0 .. MaxBlocks
NullPi == 0
NullPtr == 0

\* Values a read of memory that is not a live control block may give: one for
\* each way the comparisons of the code (with 0, with 1) can go.
GarbageCounts == {0, 1}

VARIABLES
    rc,         \* Blocks -> [state, m_ptr, m_use_count, m_weak_count]
    sp,         \* SharedIds -> [alive, m_pi, m_ptr]
    wp,         \* WeakIds -> [alive, m_pi, m_ptr]
    up,         \* UniqueIds -> the address a unique pointer owns, or null
    member,     \* Pointees -> the control block the shared pointer inside the object holds, or null
    wmember,    \* Pointees -> the control block the weak pointer inside the object holds, or null
    disposed,   \* Pointees -> number of wlp::destroy(m_ptr) on the address
    destroyed,  \* Blocks -> number of wlp::destroy(this) on the block
    fault,      \* "none", or the first undefined behaviour of the run
    nExpiredCtor, \* shared_ptr(const weak_ptr&) calls on an expired weak pointer so far
    last,       \* the last operation, [op, a, b, n], of the first MaxTrace
    scen,       \* position in the scenario of the test "create, copy, weak, ..."
    nHeld,      \* concurrent use: live shared pointers on the first control block
    nWeak,      \* concurrent use: live weak pointers on the first control block
    pend,       \* Threads -> [op, reg, stale, res, arg], the operation a thread is in
    overlap     \* a count was written from a value read before another write

vars ==
    <<rc, sp, wp, up, member, wmember, disposed, destroyed, fault, nExpiredCtor, last, scen,
      nHeld, nWeak, pend, overlap>>

\* ------------------------------------------------------------ primitives

exchange_and_add(mem, val) ==
    [res |-> mem, mem |-> (mem + val) % UseCountMod]

\* exchange_and_sub that leaves *mem as it was.
exchange_and_sub_kept(mem, val) ==
    [res |-> mem, mem |-> mem]

exchange_and_sub(mem, val) ==
    [res |-> mem, mem |-> (mem + UseCountMod - val) % UseCountMod]

Bump(n) == IF n < MaxEvents THEN n + 1 ELSE MaxEvents

\* The memory the count operations act on, as the variables hold it.
Heap ==
    [rc |-> rc, disposed |-> disposed, destroyed |-> destroyed, fault |-> fault,
     member |-> member, wmember |-> wmember]

\* The first fault of the run is the one recorded; a trap ends the operation.
SetFault(h, f) ==
    IF h.fault = "none" \/ f = "trap" THEN [h EXCEPT !.fault = f] ELSE h

\* A use of *this in a member of ReferenceCount: of a freed block it is a use
\* after free.
deref(h, b) ==
    IF h.rc[b].state = "freed" THEN SetFault(h, "use_after_free") ELSE h

\* A control block whose weak count starts at 0: without the weak reference
\* that the shared pointers hold together.
ReferenceCount_unseeded(ptr) ==
    [state |-> "live", m_ptr |-> ptr, m_use_count |-> 1, m_weak_count |-> 0]

ReferenceCount(ptr) ==
    [state |-> "live", m_ptr |-> ptr, m_use_count |-> 1, m_weak_count |-> 1]

RECURSIVE release(_, _)
RECURSIVE weak_release(_, _)

\* wlp::destroy(m_ptr): the destructor of the object destroys the shared
\* pointer and the weak pointer the object holds, which release their
\* references.
dispose(h, b) ==
    LET p == h.rc[b].m_ptr
        h1 == [IF h.disposed[p] > 0 THEN SetFault(h, "double_dispose") ELSE h
                 EXCEPT !.disposed[p] = Bump(@),
                        !.member[p] = NullPi, !.wmember[p] = NullPi]
        h2 == IF h.member[p] = NullPi THEN h1 ELSE release(h1, h.member[p])
    IN  IF p = NullPtr
        THEN h
        ELSE IF h.wmember[p] = NullPi THEN h2 ELSE weak_release(h2, h.wmember[p])

destroy(h, b) ==
    [h EXCEPT !.rc[b].state = "freed", !.destroyed[b] = Bump(@)]

\* A copy counted with a count that stops at its largest value.
add_copied_reference_saturating(h, b) ==
    [deref(h, b) EXCEPT !.rc[b].m_use_count =
                            IF @ = UseCountMod - 1 THEN @ ELSE @ + 1]

\* A copy that is not counted.
add_copied_reference_dropped(h, b) == deref(h, b)

add_copied_reference(h, b) ==
    [deref(h, b) EXCEPT !.rc[b].m_use_count = (@ + 1) % UseCountMod]

\* add_locked_reference without the test of the value read: a plain increment.
add_locked_reference_unchecked(h, b) ==
    [deref(h, b) EXCEPT !.rc[b].m_use_count = exchange_and_add(@, 1).mem]

add_locked_reference(h, b) ==
    LET x == exchange_and_add(h.rc[b].m_use_count, 1)
    IN  [deref(h, b) EXCEPT !.rc[b].m_use_count = IF x.res = 0 THEN 0 ELSE x.mem]

\* release that frees the control block whenever it disposes the pointee,
\* whatever the weak count.
release_frees_always(h, b) ==
    LET x == exchange_and_sub(h.rc[b].m_use_count, 1)
        h1 == [deref(h, b) EXCEPT !.rc[b].m_use_count = x.mem]
    IN  IF x.res = 1
        THEN LET h2 == dispose(h1, b)
                 y == exchange_and_sub(h2.rc[b].m_weak_count, 1)
             IN  destroy([h2 EXCEPT !.rc[b].m_weak_count = y.mem], b)
        ELSE h1

\* release that disposes one release early: when the count it read was 2.
release_early(h, b) ==
    LET x == exchange_and_sub(h.rc[b].m_use_count, 1)
        h1 == [deref(h, b) EXCEPT !.rc[b].m_use_count = x.mem]
    IN  IF x.res = 2
        THEN LET h2 == dispose(h1, b)
                 y == exchange_and_sub(h2.rc[b].m_weak_count, 1)
                 h3 == [h2 EXCEPT !.rc[b].m_weak_count = y.mem]
             IN  IF y.res = 1 THEN destroy(h3, b) ELSE h3
        ELSE h1

release(h, b) ==
    LET x == exchange_and_sub(h.rc[b].m_use_count, 1)
        h1 == [deref(h, b) EXCEPT !.rc[b].m_use_count = x.mem]
    IN  IF x.res = 1
        THEN LET h2 == dispose(h1, b)
                 y == exchange_and_sub(h2.rc[b].m_weak_count, 1)
                 h3 == [deref(h2, b) EXCEPT !.rc[b].m_weak_count = y.mem]
             IN  IF y.res = 1 THEN destroy(h3, b) ELSE h3
        ELSE h1

\* add_weak_reference that takes a strong reference as well: a weak pointer
\* that keeps the pointee alive.
add_weak_reference_owning(h, b) ==
    [deref(h, b) EXCEPT !.rc[b].m_weak_count = (@ + 1) % UseCountMod,
                        !.rc[b].m_use_count = (@ + 1) % UseCountMod]

add_weak_reference(h, b) ==
    [deref(h, b) EXCEPT !.rc[b].m_weak_count = (@ + 1) % UseCountMod]

\* weak_release that frees the control block one release early: when the
\* count it read was 2.
weak_release_eager(h, b) ==
    LET y == exchange_and_sub(h.rc[b].m_weak_count, 1)
        h1 == [deref(h, b) EXCEPT !.rc[b].m_weak_count = y.mem]
    IN  IF y.res <= 2 THEN destroy(h1, b) ELSE h1

\* weak_release that never frees the control block.
weak_release_leak(h, b) ==
    LET y == exchange_and_sub(h.rc[b].m_weak_count, 1)
    IN  [deref(h, b) EXCEPT !.rc[b].m_weak_count = y.mem]

weak_release(h, b) ==
    LET y == exchange_and_sub(h.rc[b].m_weak_count, 1)
        h1 == [deref(h, b) EXCEPT !.rc[b].m_weak_count = y.mem]
    IN  IF y.res = 1 THEN destroy(h1, b) ELSE h1

\* use_count that reads the weak count.
ReferenceCount_weak_count(h, b) == h.rc[b].m_weak_count

\* ReferenceCount::use_count
ReferenceCount_use_count(h, b) == h.rc[b].m_use_count

\* ---------------------------------------------------------------- handles

\* ~SharedCount
SharedCountDtor(h, pi) == IF pi # NullPi THEN release(h, pi) ELSE h

\* SharedCount(const SharedCount&)
SharedCountCopy(h, pi) == IF pi # NullPi THEN add_copied_reference(h, pi) ELSE h

\* operator= that releases what it held before it counts the new reference.
SharedCountAssign_release_first(h, pi, tmp) ==
    IF tmp # pi
    THEN LET h1 == IF pi # NullPi THEN release(h, pi) ELSE h
         IN  IF tmp # NullPi THEN add_copied_reference(h1, tmp) ELSE h1
    ELSE h

\* SharedCount::operator=(const SharedCount&): the heap after assigning a count
\* that holds tmp to one that holds pi.
SharedCountAssign(h, pi, tmp) ==
    IF tmp # pi
    THEN LET h1 == IF tmp # NullPi THEN add_copied_reference(h, tmp) ELSE h
         IN  IF pi # NullPi THEN release(h1, pi) ELSE h1
    ELSE h

\* ~WeakCount
WeakCountDtor(h, pi) == IF pi # NullPi THEN weak_release(h, pi) ELSE h

\* WeakCount(const SharedCount&), WeakCount(const WeakCount&)
\* A weak count made from a count without a reference of its own.
WeakCountCopy_uncounted(h, pi) == h

WeakCountCopy(h, pi) == IF pi # NullPi THEN add_weak_reference(h, pi) ELSE h

\* WeakCount::operator= that releases the old weak reference before it adds
\* the new one.
WeakCountAssign_release_first(h, pi, tmp) ==
    LET h1 == IF pi # NullPi THEN weak_release(h, pi) ELSE h
    IN  IF tmp # NullPi THEN add_weak_reference(h1, tmp) ELSE h1

\* WeakCount::operator=: the heap after assigning a count that holds tmp to a
\* weak count that holds pi.
WeakCountAssign(h, pi, tmp) ==
    LET h1 == IF tmp # NullPi THEN add_weak_reference(h, tmp) ELSE h
    IN  IF pi # NullPi THEN weak_release(h1, pi) ELSE h1

\* SharedCount::use_count
SharedCount_use_count(h, pi) ==
    IF pi # NullPi THEN ReferenceCount_use_count(h, pi) ELSE 0

\* ---------------------------------------------------------------- facades

EmptyPtr == [alive |-> TRUE, m_pi |-> NullPi, m_ptr |-> NullPtr]
NoObject == [alive |-> FALSE, m_pi |-> NullPi, m_ptr |-> NullPtr]
Ptr(pi, ptr) == [alive |-> TRUE, m_pi |-> pi, m_ptr |-> ptr]

Trapped(h) == h.fault = "trap"

\* WeakCount::use_count through the handle of weak pointer value w: the set of
\* its outcomes [h, val].  With a null m_pi the read is through a null pointer.
WeakCount_use_count(h, w) ==
    IF w.m_pi # NullPi
    THEN {[h |-> deref(h, w.m_pi), val |-> ReferenceCount_use_count(h, w.m_pi)]}
    ELSE {[h |-> SetFault(h, "trap"), val |-> 0]}
         \cup {[h |-> SetFault(h, "null_deref"), val |-> g] : g \in GarbageCounts}

\* SharedCount(const WeakCount&) and shared_ptr(const weak_ptr&) on weak
\* pointer value w: the set of outcomes [h, res], res the new shared pointer.
shared_ptr_from_weak(h, w) ==
    IF w.m_pi # NullPi
    THEN {[h |-> add_locked_reference(h, w.m_pi), res |-> Ptr(w.m_pi, w.m_ptr)]}
    ELSE {[h |-> SetFault(h, f), res |-> Ptr(NullPi, w.m_ptr)]
            : f \in {"trap", "null_deref"}}

\* lock without the test of expired().
lock_unguarded(h, w) == shared_ptr_from_weak(h, w)

\* weak_ptr::lock on weak pointer value w: the set of outcomes [h, res].
lock(h, w) ==
    UNION { IF Trapped(u.h) \/ u.val = 0
            THEN {[h |-> u.h, res |-> Ptr(NullPi, NullPtr)]}
            ELSE shared_ptr_from_weak(u.h, w)
          : u \in WeakCount_use_count(h, w) }

\* ------------------------------------------------------------------ state

\* A thread that is in no operation.
Idle == [op |-> "idle", reg |-> 0, stale |-> FALSE, res |-> "none", arg |-> 0]

Init ==
    /\ rc = [b \in Blocks |->
               [state |-> "none", m_ptr |-> NullPtr,
                m_use_count |-> 0, m_weak_count |-> 0]]
    /\ sp = [s \in SharedIds |-> NoObject]
    /\ wp = [w \in WeakIds |-> NoObject]
    /\ up = [u \in UniqueIds |-> NullPtr]
    /\ member = [p \in Pointees |-> NullPi]
    /\ wmember = [p \in Pointees |-> NullPi]
    /\ disposed = [p \in Pointees |-> 0]
    /\ destroyed = [b \in Blocks |-> 0]
    /\ fault = "none"
    /\ nExpiredCtor = 0
    /\ last = [op |-> "init", a |-> 0, b |-> 0, n |-> 0]
    /\ scen = 0
    /\ nHeld = 0
    /\ nWeak = 0
    /\ pend = [t \in Threads |-> Idle]
    /\ overlap = FALSE


\* ----------------------------------------------------------------- memory

SharedOn(b) == {s \in SharedIds : sp[s].alive /\ sp[s].m_pi = b}
WeakOn(b) == {w \in WeakIds : wp[w].alive /\ wp[w].m_pi = b}

\* A freed control block that a handle still points to.
Dangling == {b \in Blocks : rc[b].state = "freed" /\ SharedOn(b) \cup WeakOn(b) # {}}

\* The memory an operation may find: the bytes of a freed control block are
\* the allocator's, so a dangling handle reads any counts there.
Mems ==
    { [Heap EXCEPT !.rc = [b \in Blocks |->
                            IF b \in Dangling
                            THEN [rc[b] EXCEPT !.m_use_count = g[b][1],
                                               !.m_weak_count = g[b][2]]
                            ELSE rc[b]]]
      : g \in [Dangling -> GarbageCounts \X GarbageCounts] }

\* What the model keeps of a freed block is that it is freed and which
\* pointee it had: its counts are read anew (Mems) by whatever uses it next.
Settle(r) ==
    [b \in Blocks |->
       IF r[b].state = "freed"
       THEN [r[b] EXCEPT !.m_use_count = 0, !.m_weak_count = 0]
       ELSE r[b]]

\* -------------------------------------------------------------- observers

\* shared_ptr::use_count, unique, get, operator bool
use_count(s) == SharedCount_use_count(Heap, sp[s].m_pi)
unique(s) == use_count(s) = 1
get(s) == sp[s].m_ptr
operator_bool(s) == sp[s].m_ptr # NullPtr

\* SharedCount::less, WeakCount::less: the addresses of the control blocks
\* compared
less(pi, qi) == pi < qi

\* An ordering by the address observed instead of the control block.
owner_before_by_address(x, y) == x.m_ptr < y.m_ptr

\* shared_ptr::owner_before, weak_ptr::owner_before on pointer values x, y
owner_before(x, y) == less(x.m_pi, y.m_pi)

\* weak_ptr::use_count: the set of its outcomes [trap, val], trap telling
\* whether this call itself stops the program
weak_use_count(w) ==
    { [trap |-> Trapped(u.h), val |-> u.val]
      : u \in UNION {WeakCount_use_count([h0 EXCEPT !.fault = "none"], wp[w])
                       : h0 \in Mems} }

\* weak_ptr::expired: the set of its outcomes [trap, val]
expired(w) == {[trap |-> u.trap, val |-> (u.val = 0)] : u \in weak_use_count(w)}

\* ---------------------------------------------------------- bookkeeping

\* The scenario of the test: A is shared pointer 1, B is shared pointer 2, W is
\* weak pointer 1 and X is pointee 1.
Scenario ==
    << [op |-> "shared_ptr(U*)", a |-> 1, b |-> 1],
       [op |-> "shared_ptr(const shared_ptr&)", a |-> 2, b |-> 1],
       [op |-> "weak_ptr(const shared_ptr&)", a |-> 1, b |-> 1],
       [op |-> "~shared_ptr", a |-> 1, b |-> 0],
       [op |-> "~shared_ptr", a |-> 2, b |-> 0],
       [op |-> "lock", a |-> 1, b |-> 1],
       [op |-> "~weak_ptr", a |-> 1, b |-> 0] >>

ScenOff == Len(Scenario) + 1

ScenNext(l) ==
    IF scen < Len(Scenario) /\ Scenario[scen + 1] = l
    THEN scen + 1
    ELSE ScenOff

Later == [op |-> "later", a |-> 0, b |-> 0, n |-> MaxTrace]

Note(op, a, b) ==
    /\ last' = IF last.n < MaxTrace
               THEN [op |-> op, a |-> a, b |-> b, n |-> last.n + 1]
               ELSE Later
    /\ scen' = ScenNext([op |-> op, a |-> a, b |-> b])
    /\ UNCHANGED <<nHeld, nWeak, pend, overlap>>

Record(op, a, b) ==
    /\ Note(op, a, b)
    /\ nExpiredCtor' = nExpiredCtor
    /\ up' = up

\* Objects are constructed in the lowest slot that holds none, pointees are
\* handed over in the order of their addresses.
FreeShared(s) == ~sp[s].alive /\ \A t \in SharedIds : t < s => sp[t].alive
FreeWeak(w) == ~wp[w].alive /\ \A v \in WeakIds : v < w => wp[v].alive

Commit(h) ==
    /\ rc' = Settle(h.rc)
    /\ disposed' = h.disposed
    /\ destroyed' = h.destroyed
    /\ fault' = h.fault
    /\ member' = h.member
    /\ wmember' = h.wmember

\* create<ReferenceCount<PtrType>>(ptr): the allocator hands out the lowest
\* block that was never used.
FreeBlocks == {b \in Blocks : rc[b].state = "none"}
NewBlock == CHOOSE b \in FreeBlocks : \A c \in FreeBlocks : b <= c

\* The caller hands over a pointer it owns: an address no control block
\* manages and no unique pointer owns, the lowest such.
Owned(p) ==
    \/ \E b \in Blocks : rc[b].state # "none" /\ rc[b].m_ptr = p
    \/ \E u \in UniqueIds : up[u] = p
Adoptable(p) == ~Owned(p) /\ \A q \in Pointees : q < p => Owned(q)

\* A new control block that does not count the shared pointer made with it.
create_unowned(h, b, ptr) ==
    [h EXCEPT !.rc[b] = [ReferenceCount(ptr) EXCEPT !.m_use_count = 0]]

create(h, b, ptr) == [h EXCEPT !.rc[b] = ReferenceCount(ptr)]

\* ------------------------------------------------- shared_ptr operations

\* shared_ptr(), shared_ptr(nullptr_t)
SharedDefault(s) ==
    /\ fault = "none" /\ FreeShared(s)
    /\ sp' = [sp EXCEPT ![s] = EmptyPtr]
    /\ Record("shared_ptr()", s, 0)
    /\ UNCHANGED <<rc, wp, member, wmember, disposed, destroyed, fault>>

\* explicit shared_ptr(U *ptr)
SharedFromRaw(s, p) ==
    /\ fault = "none" /\ FreeShared(s)
    /\ FreeBlocks # {} /\ Adoptable(p)
    /\ \E h0 \in Mems :
         /\ Commit(create(h0, NewBlock, p))
         /\ sp' = [sp EXCEPT ![s] = Ptr(NewBlock, p)]
         /\ Record("shared_ptr(U*)", s, p)
         /\ UNCHANGED <<wp>>

\* unique_ptr<T> up(new T): the unique pointer of the caller, empty before,
\* takes a new object.
UniqueMake(u, p) ==
    /\ fault = "none" /\ up[u] = NullPtr /\ Adoptable(p)
    /\ up' = [up EXCEPT ![u] = p]
    /\ Note("unique_ptr(T*)", u, p)
    /\ UNCHANGED <<rc, sp, wp, member, wmember, disposed, destroyed, fault, nExpiredCtor>>

\* unique_ptr::get and unique_ptr::release
unique_get(u) == up[u]
unique_release(u) == [up EXCEPT ![u] = NullPtr]

\* The count taken from the temporary without a reference of its own: the end
\* of the temporary releases the only one.
SharedCountFromUnique_stolen(h, pi, b, ptr) ==
    SharedCountDtor(create(h, b, ptr), b)

\* SharedCount(unique_ptr<U> &&up) as a temporary, SharedCount::operator= of
\* it to the count that holds pi, and the end of the temporary: the heap
\* after, the new block being b.
SharedCountFromUnique(h, pi, b, ptr) ==
    SharedCountDtor(SharedCountAssign(create(h, b, ptr), pi, b), b)

\* The construction from a unique pointer without up.release(): the unique
\* pointer goes on owning the object.
SharedFromUnique_unreleased(s, u) ==
    /\ fault = "none" /\ FreeShared(s) /\ FreeBlocks # {}
    /\ \E h0 \in Mems :
         /\ Commit(SharedCountFromUnique(h0, NullPi, NewBlock, unique_get(u)))
         /\ sp' = [sp EXCEPT ![s] = Ptr(NewBlock, unique_get(u))]
         /\ Note("shared_ptr(unique_ptr&&)", s, u)
         /\ UNCHANGED <<wp, up, nExpiredCtor>>

\* shared_ptr(unique_ptr<U> &&up)
SharedFromUnique(s, u) ==
    /\ fault = "none" /\ FreeShared(s) /\ FreeBlocks # {}
    /\ \E h0 \in Mems :
         /\ Commit(SharedCountFromUnique(h0, NullPi, NewBlock, unique_get(u)))
         /\ sp' = [sp EXCEPT ![s] = Ptr(NewBlock, unique_get(u))]
         /\ up' = unique_release(u)
         /\ Note("shared_ptr(unique_ptr&&)", s, u)
         /\ UNCHANGED <<wp, nExpiredCtor>>

\* shared_ptr::operator=(unique_ptr<U> &&up): shared_ptr(move(up)).swap(*this),
\* the temporary then releasing what d held.
SharedAssignUnique(d, u) ==
    /\ fault = "none" /\ sp[d].alive /\ FreeBlocks # {}
    /\ \E h0 \in Mems :
         /\ Commit(SharedCountDtor(
                SharedCountFromUnique(h0, NullPi, NewBlock, unique_get(u)),
                sp[d].m_pi))
         /\ sp' = [sp EXCEPT ![d] = Ptr(NewBlock, unique_get(u))]
         /\ up' = unique_release(u)
         /\ Note("operator=(unique_ptr&&)", d, u)
         /\ UNCHANGED <<wp, nExpiredCtor>>

\* explicit shared_ptr(U *ptr) with a pointer the caller has not relinquished:
\* one a live control block holds or a unique pointer owns.  The constructor
\* cannot tell; what follows is undefined, and the run is followed no further.
HeldElsewhere(p) ==
    \/ \E b \in Blocks : rc[b].state = "live" /\ rc[b].m_ptr = p
    \/ \E u \in UniqueIds : up[u] = p

SharedFromRawOwned(s, p) ==
    /\ fault = "none" /\ FreeShared(s)
    /\ FreeBlocks # {} /\ HeldElsewhere(p)
    /\ \E h0 \in Mems :
         /\ Commit(SetFault(create(h0, NewBlock, p), "adopted_owned"))
         /\ sp' = [sp EXCEPT ![s] = Ptr(NewBlock, p)]
         /\ Record("shared_ptr(U*)", s, p)
         /\ UNCHANGED <<wp>>

\* shared_ptr::reset(U *ptr) with such a pointer, as in a.reset(a.get())
SharedResetOwned(s, p) ==
    /\ fault = "none" /\ sp[s].alive
    /\ FreeBlocks # {} /\ HeldElsewhere(p)
    /\ \E h0 \in Mems :
         /\ sp' = [sp EXCEPT ![s] = Ptr(NewBlock, p)]
         /\ Commit(SetFault(SharedCountDtor(create(h0, NewBlock, p), sp[s].m_pi),
                            "adopted_owned"))
         /\ Record("reset(U*)", s, p)
         /\ UNCHANGED <<wp>>

\* shared_ptr(const shared_ptr<U> &sp, T *ptr), and the casts built on it
SharedAlias(s, src, a) ==
    /\ fault = "none" /\ FreeShared(s) /\ sp[src].alive
    /\ \E h0 \in Mems :
         /\ Commit(SharedCountCopy(h0, sp[src].m_pi))
         /\ sp' = [sp EXCEPT ![s] = Ptr(sp[src].m_pi, a)]
         /\ Record("shared_ptr(const shared_ptr&, T*)", s, src)
         /\ UNCHANGED <<wp>>

\* dynamic_pointer_cast<T>(sp), its result constructed in shared pointer s.  a
\* is what dynamic_cast<T *>(sp.get()) gives: null when the type check fails
\* (and for a null sp.get()), else the address of the T in the object.  The
\* check reads the object at sp.get(): a use after free once it is disposed.
DynamicCast(s, src, a) ==
    /\ fault = "none" /\ FreeShared(s) /\ sp[src].alive
    /\ sp[src].m_ptr = NullPtr => a = NullPtr
    /\ \E h0 \in Mems :
         LET h1 == IF sp[src].m_ptr # NullPtr /\ h0.disposed[sp[src].m_ptr] > 0
                   THEN SetFault(h0, "object_after_free")
                   ELSE h0
         IN  /\ Commit(IF a # NullPtr
                       THEN SharedCountCopy(h1, sp[src].m_pi)
                       ELSE h1)
             /\ sp' = [sp EXCEPT ![s] = IF a # NullPtr
                                        THEN Ptr(sp[src].m_pi, a)
                                        ELSE EmptyPtr]
             /\ Record("dynamic_pointer_cast", s, src)
             /\ UNCHANGED <<wp>>

\* shared_ptr(const shared_ptr &sp)
SharedCopy(s, src) ==
    /\ fault = "none" /\ FreeShared(s) /\ sp[src].alive
    /\ \E h0 \in Mems :
         /\ Commit(SharedCountCopy(h0, sp[src].m_pi))
         /\ sp' = [sp EXCEPT ![s] = Ptr(sp[src].m_pi, sp[src].m_ptr)]
         /\ Record("shared_ptr(const shared_ptr&)", s, src)
         /\ UNCHANGED <<wp>>

\* A move that leaves its source as it was.
moved_from_kept(f, src) == f

\* The source of a move afterwards: m_refcount swapped with an empty count,
\* sp.m_ptr = nullptr
moved_from(f, src) == [f EXCEPT ![src] = EmptyPtr]

\* shared_ptr(shared_ptr &&sp)
SharedMove(s, src) ==
    /\ fault = "none" /\ FreeShared(s) /\ sp[src].alive
    /\ sp' = [moved_from(sp, src) EXCEPT ![s] = Ptr(sp[src].m_pi, sp[src].m_ptr)]
    /\ Record("shared_ptr(shared_ptr&&)", s, src)
    /\ UNCHANGED <<rc, wp, member, wmember, disposed, destroyed, fault>>

\* explicit shared_ptr(const weak_ptr<U> &wp)
SharedFromWeak(s, w) ==
    /\ fault = "none" /\ FreeShared(s) /\ wp[w].alive
    /\ \E h0 \in Mems :
         LET ex == IF wp[w].m_pi # NullPi
                      /\ ReferenceCount_use_count(h0, wp[w].m_pi) = 0
                   THEN 1 ELSE 0
         IN  /\ nExpiredCtor + ex <= MaxExpiredCtor
             /\ nExpiredCtor' = nExpiredCtor + ex
             /\ \E o \in shared_ptr_from_weak(h0, wp[w]) :
                  /\ Commit(o.h)
                  /\ sp' = IF Trapped(o.h) THEN sp ELSE [sp EXCEPT ![s] = o.res]
             /\ Note("shared_ptr(const weak_ptr&)", s, w)
             /\ UNCHANGED <<wp, up>>

\* shared_ptr::operator=(const shared_ptr &sp)
SharedAssign(d, src) ==
    /\ fault = "none" /\ sp[d].alive /\ sp[src].alive
    /\ \E h0 \in Mems :
         /\ Commit(SharedCountAssign(h0, sp[d].m_pi, sp[src].m_pi))
         /\ sp' = [sp EXCEPT ![d] = Ptr(sp[src].m_pi, sp[src].m_ptr)]
         /\ Record("operator=(const shared_ptr&)", d, src)
         /\ UNCHANGED <<wp>>

\* shared_ptr::operator=(shared_ptr &&sp)
SharedMoveAssign(d, src) ==
    /\ fault = "none" /\ sp[d].alive /\ sp[src].alive
    /\ \E h0 \in Mems :
         /\ LET tmp == sp[src]
                moved == moved_from(sp, src)
                old == moved[d]
            IN  /\ sp' = [moved EXCEPT ![d] = tmp]
                /\ Commit(SharedCountDtor(h0, old.m_pi))
         /\ Record("operator=(shared_ptr&&)", d, src)
         /\ UNCHANGED <<wp>>

\* shared_ptr::reset()
SharedReset(s) ==
    /\ fault = "none" /\ sp[s].alive
    /\ \E h0 \in Mems :
         /\ sp' = [sp EXCEPT ![s] = EmptyPtr]
         /\ Commit(SharedCountDtor(h0, sp[s].m_pi))
         /\ Record("reset()", s, 0)
         /\ UNCHANGED <<wp>>

\* shared_ptr::reset(U *ptr)
SharedResetPtr(s, p) ==
    /\ fault = "none" /\ sp[s].alive
    /\ FreeBlocks # {} /\ Adoptable(p)
    /\ \E h0 \in Mems :
         /\ sp' = [sp EXCEPT ![s] = Ptr(NewBlock, p)]
         /\ Commit(SharedCountDtor(create(h0, NewBlock, p), sp[s].m_pi))
         /\ Record("reset(U*)", s, p)
         /\ UNCHANGED <<wp>>

\* An exchange that copies the second pointer into the first and leaves the
\* second as it was.
swapped_one_way(f, a, b) == [f EXCEPT ![a] = f[b]]

\* wlp::swap of m_ptr and of m_pi between the pointers a and b of f
swapped(f, a, b) == [f EXCEPT ![a] = f[b], ![b] = f[a]]

\* shared_ptr::swap
SharedSwap(s, t) ==
    /\ fault = "none" /\ sp[s].alive /\ sp[t].alive /\ s # t
    /\ sp' = swapped(sp, s, t)
    /\ Record("swap(shared_ptr&)", s, t)
    /\ UNCHANGED <<rc, wp, member, wmember, disposed, destroyed, fault>>

\* ~shared_ptr
SharedDtor(s) ==
    /\ fault = "none" /\ sp[s].alive
    /\ \E h0 \in Mems :
         /\ sp' = [sp EXCEPT ![s] = NoObject]
         /\ Commit(SharedCountDtor(h0, sp[s].m_pi))
         /\ Record("~shared_ptr", s, 0)
         /\ UNCHANGED <<wp>>

\* ------------------------------------------- shared pointers in objects

\* The object at a non-null address q is used through a pointer: a use after
\* free once it is disposed.
object(h, q) ==
    IF h.disposed[q] > 0 THEN SetFault(h, "object_after_free") ELSE h

\* s->next = t: shared_ptr::operator=(const shared_ptr&) on the shared pointer
\* inside the object that shared pointer s observes.
SetMember(s, t) ==
    /\ fault = "none" /\ sp[s].alive /\ sp[t].alive /\ sp[s].m_ptr # NullPtr
    /\ \E h0 \in Mems :
         LET q == sp[s].m_ptr
             h1 == SharedCountAssign(object(h0, q), h0.member[q], sp[t].m_pi)
         IN  Commit([h1 EXCEPT !.member[q] = sp[t].m_pi])
    /\ Record("s->next = t", s, t)
    /\ UNCHANGED <<sp, wp>>

\* s->next.reset(): shared_ptr::reset() on the shared pointer inside the
\* object that shared pointer s observes.
ClearMember(s) ==
    /\ fault = "none" /\ sp[s].alive /\ sp[s].m_ptr # NullPtr
    /\ \E h0 \in Mems :
         LET q == sp[s].m_ptr
             h1 == [object(h0, q) EXCEPT !.member[q] = NullPi]
         IN  Commit(SharedCountDtor(h1, h0.member[q]))
    /\ Record("s->next.reset()", s, 0)
    /\ UNCHANGED <<sp, wp>>

\* d = d->next: shared_ptr::operator=(const shared_ptr&) whose source is the
\* shared pointer inside the object that d observes.
AssignMember(d) ==
    /\ fault = "none" /\ sp[d].alive /\ sp[d].m_ptr # NullPtr
    /\ \E h0 \in Mems :
         LET q == sp[d].m_ptr
             tmp == h0.member[q]
         IN  /\ Commit(SharedCountAssign(object(h0, q), sp[d].m_pi, tmp))
             /\ sp' = [sp EXCEPT ![d] =
                         Ptr(tmp, IF tmp = NullPi THEN NullPtr ELSE h0.rc[tmp].m_ptr)]
    /\ Record("d = d->next", d, 0)
    /\ UNCHANGED <<wp>>

\* s->self = t: weak_ptr::operator=(const shared_ptr<U>&) on the weak pointer
\* inside the object that shared pointer s observes.
SetWeakMember(s, t) ==
    /\ fault = "none" /\ sp[s].alive /\ sp[t].alive /\ sp[s].m_ptr # NullPtr
    /\ \E h0 \in Mems :
         LET q == sp[s].m_ptr
             h1 == WeakCountAssign(object(h0, q), h0.wmember[q], sp[t].m_pi)
         IN  Commit([h1 EXCEPT !.wmember[q] = sp[t].m_pi])
    /\ Record("s->self = t", s, t)
    /\ UNCHANGED <<sp, wp>>

\* s->self.reset(): weak_ptr::reset() on the weak pointer inside the object
\* that shared pointer s observes.
ClearWeakMember(s) ==
    /\ fault = "none" /\ sp[s].alive /\ sp[s].m_ptr # NullPtr
    /\ \E h0 \in Mems :
         LET q == sp[s].m_ptr
             h1 == [object(h0, q) EXCEPT !.wmember[q] = NullPi]
         IN  Commit(WeakCountDtor(h1, h0.wmember[q]))
    /\ Record("s->self.reset()", s, 0)
    /\ UNCHANGED <<sp, wp>>

\* --------------------------------------------------- weak_ptr operations

\* weak_ptr()
WeakDefault(w) ==
    /\ fault = "none" /\ FreeWeak(w)
    /\ wp' = [wp EXCEPT ![w] = EmptyPtr]
    /\ Record("weak_ptr()", w, 0)
    /\ UNCHANGED <<rc, sp, member, wmember, disposed, destroyed, fault>>

\* weak_ptr(const shared_ptr<U> &sp), shared_ptr::weak()
WeakFromShared(w, s) ==
    /\ fault = "none" /\ FreeWeak(w) /\ sp[s].alive
    /\ \E h0 \in Mems :
         /\ Commit(WeakCountCopy(h0, sp[s].m_pi))
         /\ wp' = [wp EXCEPT ![w] = Ptr(sp[s].m_pi, sp[s].m_ptr)]
         /\ Record("weak_ptr(const shared_ptr&)", w, s)
         /\ UNCHANGED <<sp>>

\* The copy constructor of weak_ptr<T> the compiler writes (the template
\* constructor is never a copy constructor): WeakCount(const WeakCount&) and a
\* copy of m_ptr.
WeakCopy(w, src) ==
    /\ fault = "none" /\ FreeWeak(w) /\ wp[src].alive
    /\ \E h0 \in Mems :
         /\ Commit(WeakCountCopy(h0, wp[src].m_pi))
         /\ wp' = [wp EXCEPT ![w] = Ptr(wp[src].m_pi, wp[src].m_ptr)]
         /\ Record("weak_ptr(const weak_ptr&)", w, src)
         /\ UNCHANGED <<sp>>

\* weak_ptr(const weak_ptr<U> &wp), U convertible to T: the count is copied,
\* then m_ptr is read from a temporary wp.lock(), destroyed at the end of the
\* statement.
WeakConvCopy(w, src) ==
    /\ fault = "none" /\ FreeWeak(w) /\ wp[src].alive
    /\ \E h0 \in Mems :
         /\ \E o \in lock(WeakCountCopy(h0, wp[src].m_pi), wp[src]) :
              /\ Commit(SharedCountDtor(o.h, o.res.m_pi))
              /\ wp' = IF Trapped(o.h) THEN wp
                       ELSE [wp EXCEPT ![w] = Ptr(wp[src].m_pi, o.res.m_ptr)]
         /\ Record("weak_ptr(const weak_ptr<U>&)", w, src)
         /\ UNCHANGED <<sp>>

\* The copy assignment of weak_ptr<T> the compiler writes:
\* WeakCount::operator=(const WeakCount&) and a copy of m_ptr.
WeakAssign(d, src) ==
    /\ fault = "none" /\ wp[d].alive /\ wp[src].alive
    /\ \E h0 \in Mems :
         /\ Commit(WeakCountAssign(h0, wp[d].m_pi, wp[src].m_pi))
         /\ wp' = [wp EXCEPT ![d] = Ptr(wp[src].m_pi, wp[src].m_ptr)]
         /\ Record("operator=(const weak_ptr&)", d, src)
         /\ UNCHANGED <<sp>>

\* weak_ptr::operator=(const weak_ptr<U> &wp): m_ptr from a temporary
\* wp.lock(), then the count is assigned.
WeakConvAssign(d, src) ==
    /\ fault = "none" /\ wp[d].alive /\ wp[src].alive
    /\ \E h0 \in Mems :
         /\ \E o \in lock(h0, wp[src]) :
              /\ Commit(IF Trapped(o.h) THEN o.h
                        ELSE WeakCountAssign(SharedCountDtor(o.h, o.res.m_pi),
                                             wp[d].m_pi, wp[src].m_pi))
              /\ wp' = IF Trapped(o.h) THEN wp
                       ELSE [wp EXCEPT ![d] = Ptr(wp[src].m_pi, o.res.m_ptr)]
         /\ Record("operator=(const weak_ptr<U>&)", d, src)
         /\ UNCHANGED <<sp>>

\* weak_ptr::operator=(const shared_ptr<U> &sp)
WeakAssignShared(d, s) ==
    /\ fault = "none" /\ wp[d].alive /\ sp[s].alive
    /\ \E h0 \in Mems :
         /\ Commit(WeakCountAssign(h0, wp[d].m_pi, sp[s].m_pi))
         /\ wp' = [wp EXCEPT ![d] = Ptr(sp[s].m_pi, sp[s].m_ptr)]
         /\ Record("operator=(const shared_ptr<U>&)", d, s)
         /\ UNCHANGED <<sp>>

\* weak_ptr::lock, its result constructed in shared pointer s
WeakLock(s, w) ==
    /\ fault = "none" /\ FreeShared(s) /\ wp[w].alive
    /\ \E h0 \in Mems :
         /\ \E o \in lock(h0, wp[w]) :
              /\ Commit(o.h)
              /\ sp' = IF Trapped(o.h) THEN sp ELSE [sp EXCEPT ![s] = o.res]
         /\ Record("lock", s, w)
         /\ UNCHANGED <<wp>>

\* weak_ptr::reset
WeakReset(w) ==
    /\ fault = "none" /\ wp[w].alive
    /\ \E h0 \in Mems :
         /\ wp' = [wp EXCEPT ![w] = EmptyPtr]
         /\ Commit(WeakCountDtor(h0, wp[w].m_pi))
         /\ Record("weak_ptr::reset", w, 0)
         /\ UNCHANGED <<sp>>

\* weak_ptr::swap
WeakSwap(w, v) ==
    /\ fault = "none" /\ wp[w].alive /\ wp[v].alive /\ w # v
    /\ wp' = swapped(wp, w, v)
    /\ Record("swap(weak_ptr&)", w, v)
    /\ UNCHANGED <<rc, sp, member, wmember, disposed, destroyed, fault>>

\* ~weak_ptr
WeakDtor(w) ==
    /\ fault = "none" /\ wp[w].alive
    /\ \E h0 \in Mems :
         /\ wp' = [wp EXCEPT ![w] = NoObject]
         /\ Commit(WeakCountDtor(h0, wp[w].m_pi))
         /\ Record("~weak_ptr", w, 0)
         /\ UNCHANGED <<sp>>

\* ---------------------------------------------------------- specification

\* The operations on shared and weak pointers other than the explicit
\* construction of a shared pointer from a weak pointer.
Listed ==
    \/ \E s \in SharedIds : SharedDefault(s)
    \/ \E s \in SharedIds, p \in Pointees : SharedFromRaw(s, p)
    \/ \E s \in SharedIds, src \in SharedIds, a \in Addrs : SharedAlias(s, src, a)
    \/ \E s \in SharedIds, src \in SharedIds, a \in Addrs : DynamicCast(s, src, a)
    \/ \E s \in SharedIds, src \in SharedIds : SharedCopy(s, src)
    \/ \E s \in SharedIds, src \in SharedIds : SharedMove(s, src)
    \/ \E d \in SharedIds, src \in SharedIds : SharedAssign(d, src)
    \/ \E d \in SharedIds, src \in SharedIds : SharedMoveAssign(d, src)
    \/ \E s \in SharedIds : SharedReset(s)
    \/ \E s \in SharedIds, p \in Pointees : SharedResetPtr(s, p)
    \/ \E s \in SharedIds, t \in SharedIds : SharedSwap(s, t)
    \/ \E s \in SharedIds : SharedDtor(s)
    \/ \E w \in WeakIds : WeakDefault(w)
    \/ \E w \in WeakIds, s \in SharedIds : WeakFromShared(w, s)
    \/ \E w \in WeakIds, src \in WeakIds : WeakCopy(w, src)
    \/ \E w \in WeakIds, src \in WeakIds : WeakConvCopy(w, src)
    \/ \E d \in WeakIds, src \in WeakIds : WeakAssign(d, src)
    \/ \E d \in WeakIds, src \in WeakIds : WeakConvAssign(d, src)
    \/ \E d \in WeakIds, s \in SharedIds : WeakAssignShared(d, s)
    \/ \E s \in SharedIds, w \in WeakIds : WeakLock(s, w)
    \/ \E w \in WeakIds : WeakReset(w)
    \/ \E w \in WeakIds, v \in WeakIds : WeakSwap(w, v)
    \/ \E w \in WeakIds : WeakDtor(w)

Next ==
    \/ Listed
    \/ \E s \in SharedIds, w \in WeakIds : SharedFromWeak(s, w)

\* Every operation of shared and weak pointers on one another.
Spec == Init /\ [][Next]_vars

\* The adoption from a unique pointer, and of a raw pointer that is still
\* owned elsewhere.
UniqueOps ==
    \/ \E u \in UniqueIds, p \in Pointees : UniqueMake(u, p)
    \/ \E s \in SharedIds, u \in UniqueIds : SharedFromUnique(s, u)
    \/ \E d \in SharedIds, u \in UniqueIds : SharedAssignUnique(d, u)

AdoptOwned ==
    \/ \E s \in SharedIds, p \in Pointees : SharedFromRawOwned(s, p)
    \/ \E s \in SharedIds, p \in Pointees : SharedResetOwned(s, p)

\* The operations on the shared pointer an object holds.
MemberOps ==
    \/ \E s \in SharedIds, t \in SharedIds : SetMember(s, t)
    \/ \E s \in SharedIds : ClearMember(s)
    \/ \E d \in SharedIds : AssignMember(d)

\* What builds and drops the structures of objects that hold shared pointers:
\* adoption, copy, assignment, reset and destruction of shared pointers, weak
\* pointers made, locked and destroyed.  The program reaches an object through
\* the shared and weak pointers it holds, never through a raw address kept
\* aside.
LinkOps ==
    \/ \E s \in SharedIds, p \in Pointees : SharedFromRaw(s, p)
    \/ \E s \in SharedIds, src \in SharedIds : SharedCopy(s, src)
    \/ \E d \in SharedIds, src \in SharedIds : SharedAssign(d, src)
    \/ \E s \in SharedIds : SharedReset(s)
    \/ \E s \in SharedIds : SharedDtor(s)
    \/ \E w \in WeakIds, s \in SharedIds : WeakFromShared(w, s)
    \/ \E s \in SharedIds, w \in WeakIds : WeakLock(s, w)
    \/ \E w \in WeakIds : WeakDtor(w)

\* A program whose objects hold shared pointers.
SpecCycle == Init /\ [][LinkOps \/ MemberOps]_vars

\* ~shared_ptr of the only shared pointer to an object that holds a weak
\* pointer to its own control block: release() runs dispose(), in which the
\* destructor of the object releases that weak pointer.
DropSelfHolder(s) ==
    /\ fault = "none" /\ sp[s].alive /\ sp[s].m_ptr # NullPtr
    /\ wmember[sp[s].m_ptr] = sp[s].m_pi
    /\ rc[sp[s].m_pi].state = "live" /\ rc[sp[s].m_pi].m_use_count = 1
    /\ \E h0 \in Mems :
         /\ sp' = [sp EXCEPT ![s] = NoObject]
         /\ Commit(SharedCountDtor(h0, sp[s].m_pi))
         /\ Record("~shared_ptr of self-holder", s, 0)
         /\ UNCHANGED <<wp>>

\* The operations on the weak pointer an object holds.
WeakMemberOps ==
    \/ \E s \in SharedIds, t \in SharedIds : SetWeakMember(s, t)
    \/ \E s \in SharedIds : ClearWeakMember(s)
    \/ \E s \in SharedIds : DropSelfHolder(s)

\* A program whose objects hold weak pointers, to themselves or to each
\* other, which their destructors release.
SpecReentrant == Init /\ [][LinkOps \/ WeakMemberOps]_vars

\* The listed operations with unique pointers and callers that hand over
\* any pointer.
SpecAdopt == Init /\ [][Listed \/ UniqueOps \/ AdoptOwned]_vars

\* Copy, move, assign, reset, swap, weak(), lock and destroy: every operation
\* but shared_ptr(const weak_ptr&).
SpecListed == Init /\ [][Listed]_vars

\* ------------------------------------------------------- concurrent use

\* Threads use shared and weak pointers of their own that all hold the first
\* control block: nHeld shared pointers and nWeak weak pointers are live.  A
\* thread runs one operation at a time; pend[t] is where it is in it and the
\* count it has read.  A pointer that an operation reads (the source of a
\* copy, the weak pointer of a lock) lives until the operation is over.

First == CHOOSE b \in Blocks : \A c \in Blocks : b <= c

Free(t) == pend[t].op = "idle"
Quiescent == \A t \in Threads : Free(t)
Loads == {"copy", "release", "lock"}
Copying == \E t \in Threads : pend[t].op = "copy"
InFlight == Cardinality({t \in Threads : pend[t].op \in {"copy", "lock"}})

\* Thread t has written to the control block: what the threads in ops have read
\* of it is from before that write.
Disturbed(t, ops) ==
    [u \in Threads |->
       IF u # t /\ pend[u].op \in ops THEN [pend[u] EXCEPT !.stale = TRUE] ELSE pend[u]]

RaceStep == UNCHANGED <<sp, wp, up, nExpiredCtor, last, scen>>

\* shared_ptr(U *ptr): the first shared pointer, on a new control block
RaceAdopt ==
    /\ fault = "none" /\ rc[First].state = "none"
    /\ Commit(create(Heap, First, First))
    /\ nHeld' = 1
    /\ UNCHANGED <<nWeak, pend, overlap>>
    /\ RaceStep

\* weak_ptr(const shared_ptr&) by thread t
RaceWeak(t) ==
    /\ fault = "none" /\ Free(t)
    /\ rc[First].state # "none" /\ nHeld >= 1 /\ nWeak = 0
    /\ Commit(add_weak_reference(Heap, First))
    /\ nWeak' = nWeak + 1
    /\ pend' = Disturbed(t, {"lock"})
    /\ UNCHANGED <<nHeld, overlap>>
    /\ RaceStep

\* shared_ptr(const shared_ptr&) by thread t, in one step
RaceCopy(t) ==
    /\ fault = "none" /\ Free(t)
    /\ nHeld >= 1 /\ nHeld + InFlight < MaxHeld
    /\ Commit(add_copied_reference(Heap, First))
    /\ nHeld' = nHeld + 1
    /\ pend' = Disturbed(t, Loads)
    /\ UNCHANGED <<nWeak, overlap>>
    /\ RaceStep

\* ~shared_ptr by thread t, in one step
RaceRelease(t) ==
    /\ fault = "none" /\ Free(t)
    /\ nHeld >= 1
    /\ Commit(release(Heap, First))
    /\ nHeld' = nHeld - 1
    /\ pend' = Disturbed(t, Loads)
    /\ UNCHANGED <<nWeak, overlap>>
    /\ RaceStep

\* shared_ptr(const weak_ptr&) by thread t, in one step
RaceFromWeak(t) ==
    /\ fault = "none" /\ Free(t)
    /\ nWeak >= 1 /\ nHeld + InFlight < MaxHeld
    /\ ReferenceCount_use_count(Heap, First) = 0 => nExpiredCtor < MaxExpiredCtor
    /\ \E o \in shared_ptr_from_weak(Heap, Ptr(First, First)) : Commit(o.h)
    /\ nHeld' = nHeld + 1
    /\ nExpiredCtor' = IF ReferenceCount_use_count(Heap, First) = 0
                       THEN nExpiredCtor + 1
                       ELSE nExpiredCtor
    /\ pend' = Disturbed(t, Loads)
    /\ UNCHANGED <<nWeak, overlap, sp, wp, up, last, scen>>

\* weak_ptr::expired on a weak pointer that holds block b
expired_at(h, b) == ReferenceCount_use_count(h, b) = 0

\* weak_ptr::lock, first step: the test of expired().  An expired weak pointer
\* gives the empty shared pointer at once.
LockCheck(t) ==
    /\ fault = "none" /\ Free(t)
    /\ nWeak >= 1 /\ nHeld + InFlight < MaxHeld
    /\ pend' = [pend EXCEPT ![t] =
                  IF expired_at(Heap, First)
                  THEN [Idle EXCEPT !.res = "empty"]
                  ELSE [op |-> "lock", reg |-> ReferenceCount_use_count(Heap, First),
                        stale |-> FALSE, res |-> "none", arg |-> 0]]
    /\ UNCHANGED <<rc, disposed, destroyed, fault, member, wmember, nHeld, nWeak, overlap>>
    /\ RaceStep

\* weak_ptr::lock, second step: shared_ptr<T>(*this), whose SharedCount calls
\* add_locked_reference.  res tells what the shared pointer returned holds.
LockAct(t) ==
    /\ fault = "none" /\ pend[t].op = "lock"
    /\ \E o \in shared_ptr_from_weak(Heap, Ptr(First, First)) :
         /\ Commit(o.h)
         /\ nHeld' = IF o.res.m_pi # NullPi THEN nHeld + 1 ELSE nHeld
         /\ pend' = [Disturbed(t, Loads) EXCEPT ![t] =
                       [Idle EXCEPT !.res =
                          IF o.res.m_pi = NullPi THEN "empty"
                          ELSE IF o.h.disposed[o.res.m_ptr] > 0 THEN "disposed"
                          ELSE "live"]]
    /\ overlap' = (overlap \/ pend[t].stale)
    /\ UNCHANGED nWeak
    /\ RaceStep

\* The runs followed are those whose strong count has not drifted further
\* than the shared pointers there can be.
InRange == ReferenceCount_use_count(Heap, First) <= MaxHeld

\* add_copied_reference, ++m_use_count, first step: the count is read
CopyLoad(t) ==
    /\ fault = "none" /\ Free(t)
    /\ nHeld >= 1 /\ nHeld + InFlight < MaxHeld
    /\ InRange
    /\ Commit(deref(Heap, First))
    /\ pend' = [pend EXCEPT ![t] =
                  [op |-> "copy", reg |-> ReferenceCount_use_count(Heap, First),
                   stale |-> FALSE, res |-> "none", arg |-> 0]]
    /\ UNCHANGED <<nHeld, nWeak, overlap>>
    /\ RaceStep

\* ++m_use_count, the write of the value read, reg, plus one
add_copied_reference_store(h, b, reg) ==
    [deref(h, b) EXCEPT !.rc[b].m_use_count = (reg + 1) % UseCountMod]

\* add_copied_reference, second step; the copy is then a live shared pointer
CopyStore(t) ==
    /\ fault = "none" /\ pend[t].op = "copy"
    /\ Commit(add_copied_reference_store(Heap, First, pend[t].reg))
    /\ nHeld' = nHeld + 1
    /\ pend' = [Disturbed(t, Loads) EXCEPT ![t] = Idle]
    /\ overlap' = (overlap \/ pend[t].stale)
    /\ UNCHANGED nWeak
    /\ RaceStep

\* ~shared_ptr, release, first step: IntType res = *mem in exchange_and_sub.
\* The shared pointer destroyed is one that no copy in progress reads.
ReleaseLoad(t) ==
    /\ fault = "none" /\ Free(t)
    /\ nHeld > (IF Copying THEN 1 ELSE 0)
    /\ InRange
    /\ Commit(deref(Heap, First))
    /\ nHeld' = nHeld - 1
    /\ pend' = [pend EXCEPT ![t] =
                  [op |-> "release", reg |-> ReferenceCount_use_count(Heap, First),
                   stale |-> FALSE, res |-> "none", arg |-> 0]]
    /\ UNCHANGED <<nWeak, overlap>>
    /\ RaceStep

\* release after the write of the strong count, when the value read was 1
release_last(h, b) ==
    LET h2 == dispose(h, b)
        y == exchange_and_sub(h2.rc[b].m_weak_count, 1)
        h3 == [h2 EXCEPT !.rc[b].m_weak_count = y.mem]
    IN  IF y.res = 1 THEN destroy(h3, b) ELSE h3

\* release from the write of exchange_and_sub on, *mem = *mem - val: the
\* build subtracts from the value it has read, reg, or reads *mem again.
release_store(h, b, reg) ==
    { LET h1 == [deref(h, b) EXCEPT !.rc[b].m_use_count = v]
      IN  IF reg = 1 THEN release_last(h1, b) ELSE h1
      : v \in {exchange_and_sub(reg, 1).mem,
               exchange_and_sub(h.rc[b].m_use_count, 1).mem} }

\* release, second step
ReleaseStore(t) ==
    /\ fault = "none" /\ pend[t].op = "release"
    /\ \E h \in release_store(Heap, First, pend[t].reg) : Commit(h)
    /\ pend' = [Disturbed(t, Loads) EXCEPT ![t] = Idle]
    /\ overlap' = (overlap \/ pend[t].stale)
    /\ UNCHANGED <<nHeld, nWeak>>
    /\ RaceStep

LockRace ==
    \/ RaceAdopt
    \/ \E t \in Threads : RaceWeak(t)
    \/ \E t \in Threads : RaceCopy(t)
    \/ \E t \in Threads : RaceRelease(t)
    \/ \E t \in Threads : LockCheck(t)
    \/ \E t \in Threads : LockAct(t)

\* Threads that copy, destroy and lock at once: copies and releases are
\* single steps, lock() is its two steps.
SpecLockRaceListed == Init /\ [][LockRace]_vars

\* The same with shared_ptr(const weak_ptr&) among the operations.
SpecLockRace == Init /\ [][LockRace \/ \E t \in Threads : RaceFromWeak(t)]_vars

CountRace ==
    \/ RaceAdopt
    \/ \E t \in Threads : RaceWeak(t)
    \/ \E t \in Threads : CopyLoad(t)
    \/ \E t \in Threads : CopyStore(t)
    \/ \E t \in Threads : ReleaseLoad(t)
    \/ \E t \in Threads : ReleaseStore(t)

\* Threads that copy and destroy at once: each change of the strong count is
\* a read and a later write.
SpecCountRace == Init /\ [][CountRace]_vars

\* ------------------------------------------- assignment, statement by statement

\* One thread, Main, whose assignments to weak pointers of a convertible type
\* run as the two statements they are; between the two pend[Main] holds the
\* destination (reg) and the source (arg).
Main == CHOOSE t \in Threads : \A u \in Threads : t <= u

\* m_ptr = p in weak pointer value dst, which copies the whole of src instead.
observer_assigned_whole(dst, src, p) == src

\* m_ptr = p in weak pointer value dst, assigned from src
observer_assigned(dst, src, p) == [dst EXCEPT !.m_ptr = p]

InAssign(op, d, src) == [Idle EXCEPT !.op = op, !.reg = d, !.arg = src]

StepStill == UNCHANGED <<up, nExpiredCtor, last, scen, nHeld, nWeak, overlap>>

\* weak_ptr::operator=(const shared_ptr<U> &sp), m_ptr = sp.m_ptr
AssignSharedObserver(d, s) ==
    /\ fault = "none" /\ Quiescent /\ wp[d].alive /\ sp[s].alive
    /\ wp' = [wp EXCEPT ![d] = observer_assigned(wp[d], sp[s], sp[s].m_ptr)]
    /\ pend' = [pend EXCEPT ![Main] = InAssign("weak = shared", d, s)]
    /\ UNCHANGED <<rc, disposed, destroyed, fault, member, wmember, sp>>
    /\ StepStill

\* weak_ptr::operator=(const shared_ptr<U> &sp), m_refcount = sp.m_refcount
AssignSharedCount ==
    /\ fault = "none" /\ pend[Main].op = "weak = shared"
    /\ LET d == pend[Main].reg
           s == pend[Main].arg
       IN  /\ \E h0 \in Mems : Commit(WeakCountAssign(h0, wp[d].m_pi, sp[s].m_pi))
           /\ wp' = [wp EXCEPT ![d].m_pi = sp[s].m_pi]
    /\ pend' = [pend EXCEPT ![Main] = Idle]
    /\ UNCHANGED sp
    /\ StepStill

\* weak_ptr::operator=(const weak_ptr<U> &wp), m_ptr = wp.lock().get(): the
\* temporary shared pointer is destroyed at the end of the statement
AssignWeakObserver(d, src) ==
    /\ fault = "none" /\ Quiescent /\ wp[d].alive /\ wp[src].alive
    /\ \E h0 \in Mems :
         \E o \in lock(h0, wp[src]) :
            /\ Commit(SharedCountDtor(o.h, o.res.m_pi))
            /\ wp' = IF Trapped(o.h) THEN wp
                     ELSE [wp EXCEPT ![d] =
                             observer_assigned(wp[d], wp[src], o.res.m_ptr)]
    /\ pend' = [pend EXCEPT ![Main] = InAssign("weak = weak", d, src)]
    /\ UNCHANGED sp
    /\ StepStill

\* weak_ptr::operator=(const weak_ptr<U> &wp), m_refcount = wp.m_refcount
AssignWeakCount ==
    /\ fault = "none" /\ pend[Main].op = "weak = weak"
    /\ LET d == pend[Main].reg
           src == pend[Main].arg
       IN  /\ \E h0 \in Mems : Commit(WeakCountAssign(h0, wp[d].m_pi, wp[src].m_pi))
           /\ wp' = [wp EXCEPT ![d].m_pi = wp[src].m_pi]
    /\ pend' = [pend EXCEPT ![Main] = Idle]
    /\ UNCHANGED sp
    /\ StepStill

\* The operations of the program between its assignments.
BetweenFromRaw(s, p) == Quiescent /\ SharedFromRaw(s, p)
BetweenCopy(s, src) == Quiescent /\ SharedCopy(s, src)
BetweenDtor(s) == Quiescent /\ SharedDtor(s)
BetweenWeakDefault(w) == Quiescent /\ WeakDefault(w)
BetweenWeakFromShared(w, s) == Quiescent /\ WeakFromShared(w, s)
BetweenWeakDtor(w) == Quiescent /\ WeakDtor(w)

AssignSteps ==
    \/ \E s \in SharedIds, p \in Pointees : BetweenFromRaw(s, p)
    \/ \E s \in SharedIds, src \in SharedIds : BetweenCopy(s, src)
    \/ \E s \in SharedIds : BetweenDtor(s)
    \/ \E w \in WeakIds : BetweenWeakDefault(w)
    \/ \E w \in WeakIds, s \in SharedIds : BetweenWeakFromShared(w, s)
    \/ \E w \in WeakIds : BetweenWeakDtor(w)
    \/ \E d \in WeakIds, s \in SharedIds : AssignSharedObserver(d, s)
    \/ AssignSharedCount
    \/ \E d \in WeakIds, src \in WeakIds : AssignWeakObserver(d, src)
    \/ AssignWeakCount

\* A program that assigns shared and weak pointers to weak pointers of a
\* convertible type, each assignment in its two statements.
SpecAssignSteps == Init /\ [][AssignSteps]_vars

\* ------------------------------------------------ the counts of one block

\* ReferenceCount on its own: one control block with any counts it can hold,
\* the smallest and the largest of ptr_use_count among them, and calls of its
\* members, MaxTrace of them at most.
StrongEdge == {0, 1, 2, UseCountMod - 2, UseCountMod - 1}
WeakEdge == {1, 2, UseCountMod - 1}

InitCounts ==
    /\ \E n \in StrongEdge, w \in WeakEdge :
         /\ rc = [b \in Blocks |->
                    IF b = First
                    THEN [state |-> "live", m_ptr |-> First,
                          m_use_count |-> n, m_weak_count |-> w]
                    ELSE [state |-> "none", m_ptr |-> NullPtr,
                          m_use_count |-> 0, m_weak_count |-> 0]]
         /\ disposed = [p \in Pointees |-> IF p = First /\ n = 0 THEN 1 ELSE 0]
    /\ sp = [s \in SharedIds |-> NoObject]
    /\ wp = [w \in WeakIds |-> NoObject]
    /\ up = [u \in UniqueIds |-> NullPtr]
    /\ member = [p \in Pointees |-> NullPi]
    /\ wmember = [p \in Pointees |-> NullPi]
    /\ destroyed = [b \in Blocks |-> 0]
    /\ fault = "none"
    /\ nExpiredCtor = 0
    /\ last = [op |-> "init", a |-> 0, b |-> 0, n |-> 0]
    /\ scen = 0
    /\ nHeld = 0
    /\ nWeak = 0
    /\ pend = [t \in Threads |-> Idle]
    /\ overlap = FALSE

Callable == fault = "none" /\ rc[First].state = "live" /\ last.n < MaxTrace
Called(op) == Record(op, First, 0) /\ UNCHANGED <<sp, wp>>

CallAddCopied ==
    /\ Callable
    /\ Commit(add_copied_reference(Heap, First))
    /\ Called("add_copied_reference")

CallAddLocked ==
    /\ Callable
    /\ Commit(add_locked_reference(Heap, First))
    /\ Called("add_locked_reference")

CallRelease ==
    /\ Callable
    /\ Commit(release(Heap, First))
    /\ Called("release")

CallAddWeak ==
    /\ Callable
    /\ Commit(add_weak_reference(Heap, First))
    /\ Called("add_weak_reference")

CallWeakRelease ==
    /\ Callable
    /\ Commit(weak_release(Heap, First))
    /\ Called("weak_release")

Calls ==
    \/ CallAddCopied
    \/ CallAddLocked
    \/ CallRelease
    \/ CallAddWeak
    \/ CallWeakRelease

\* The members of ReferenceCount called on a block with any counts.
SpecCounts == InitCounts /\ [][Calls]_vars

\* ------------------------------------------------------------------ claims

Live(b) == rc[b].state = "live"
Created(b) == rc[b].state # "none"

\* C1: a pointee adopted once is disposed exactly once, in the operation that
\* releases the last shared pointer on its control block: not while one is
\* left, and as soon as none is.
C1_DisposedAtLastStrongRelease ==
    \A b \in Blocks :
        Created(b) =>
            disposed[rc[b].m_ptr] = IF SharedOn(b) = {} THEN 1 ELSE 0

C1_Witness ==
    /\ last = [op |-> "~shared_ptr", a |-> 2, b |-> 0, n |-> 4]
    /\ Created(1) /\ SharedOn(1) = {} /\ disposed[rc[1].m_ptr] = 1
    /\ \A s \in SharedIds : ~sp[s].alive

\* C2: a control block is freed exactly once, in the operation that releases
\* the last shared or weak pointer on it, and never while one refers to it.
C2_FreedAtLastRelease ==
    \A b \in Blocks :
        Created(b) =>
            /\ destroyed[b] = IF SharedOn(b) = {} /\ WeakOn(b) = {} THEN 1 ELSE 0
            /\ (rc[b].state = "freed") = (destroyed[b] = 1)

C2_Witness ==
    /\ last = [op |-> "~weak_ptr", a |-> 1, b |-> 0, n |-> 4]
    /\ rc[1].state = "freed" /\ destroyed[1] = 1 /\ disposed[rc[1].m_ptr] = 1
    /\ SharedOn(1) = {} /\ WeakOn(1) = {}

\* C3: use_count() of a shared pointer is the number of live shared pointers
\* on its control block, and 0 without a control block.
C3_UseCountIsHandleCount ==
    \A s \in SharedIds :
        sp[s].alive =>
            use_count(s) = IF sp[s].m_pi = NullPi THEN 0
                           ELSE Cardinality(SharedOn(sp[s].m_pi))

\* C4: on a weak pointer without a control block use_count() returns 0 and
\* expired() returns true, and neither dereferences the null control block.
C4_NullWeakObserversSafe ==
    \A w \in WeakIds :
        wp[w].alive /\ wp[w].m_pi = NullPi =>
            /\ weak_use_count(w) = {[trap |-> FALSE, val |-> 0]}
            /\ expired(w) = {[trap |-> FALSE, val |-> TRUE]}
            /\ fault \notin {"trap", "null_deref"}

\* The weak pointer w holds a live control block whose strong count is 0.
ExpiredOn(w) ==
    /\ wp[w].alive /\ wp[w].m_pi # NullPi
    /\ Live(wp[w].m_pi) /\ rc[wp[w].m_pi].m_use_count = 0

\* C5: a shared pointer constructed explicitly from an expired weak pointer is
\* empty (no control block, null get()), and no count of the block changes.
C5_ExpiredCtorYieldsEmpty ==
    [][\A s \in SharedIds, w \in WeakIds :
          ExpiredOn(w) /\ SharedFromWeak(s, w) =>
              /\ sp'[s] = EmptyPtr
              /\ rc'[wp[w].m_pi] = rc[wp[w].m_pi]]_vars

\* C6: no count of a live control block is decremented while it is 0: none
\* wraps from 0 to 65535.
C6_NoCountUnderflow ==
    [][\A b \in Blocks :
          Live(b) =>
              /\ ~(rc[b].m_use_count = 0 /\ rc'[b].m_use_count = UseCountMod - 1)
              /\ ~(rc[b].m_weak_count = 0 /\ rc'[b].m_weak_count = UseCountMod - 1)
      ]_vars

\* C7: on a weak pointer that holds a (live) control block, expired() returns
\* true if and only if the strong count of the block is 0.
C7_ExpiredIffStrongZero ==
    \A w \in WeakIds :
        wp[w].alive /\ wp[w].m_pi # NullPi /\ Live(wp[w].m_pi) =>
            expired(w) = {[trap |-> FALSE,
                           val |-> (rc[wp[w].m_pi].m_use_count = 0)]}

C7_Witness ==
    \E w \in WeakIds, v \in WeakIds :
        /\ ExpiredOn(w) /\ expired(w) = {[trap |-> FALSE, val |-> TRUE]}
        /\ wp[v].alive /\ wp[v].m_pi # NullPi /\ Live(wp[v].m_pi)
        /\ rc[wp[v].m_pi].m_use_count = 1
        /\ expired(v) = {[trap |-> FALSE, val |-> FALSE]}

\* C8: lock() on a weak pointer that is not expired returns a shared pointer
\* on the same control block, the strong count is one greater after the call
\* and the weak count is unchanged.
C8_LockAddsOneStrong ==
    [][\A s \in SharedIds, w \in WeakIds :
          /\ wp[w].alive /\ wp[w].m_pi # NullPi /\ Live(wp[w].m_pi)
          /\ rc[wp[w].m_pi].m_use_count # 0
          /\ WeakLock(s, w)
          => /\ sp'[s].alive /\ sp'[s].m_pi = wp[w].m_pi
             /\ rc'[wp[w].m_pi].m_use_count = rc[wp[w].m_pi].m_use_count + 1
             /\ rc'[wp[w].m_pi].m_weak_count = rc[wp[w].m_pi].m_weak_count
      ]_vars

\* C9: lock() on a weak pointer whose control block has strong count 0 returns
\* an empty shared pointer and changes neither count of the block.
C9_LockExpiredYieldsEmpty ==
    [][\A s \in SharedIds, w \in WeakIds :
          ExpiredOn(w) /\ WeakLock(s, w) =>
              /\ sp'[s] = EmptyPtr
              /\ rc'[wp[w].m_pi] = rc[wp[w].m_pi]
              /\ disposed' = disposed /\ destroyed' = destroyed
      ]_vars

C9_Witness ==
    /\ last.op = "lock" /\ fault = "none"
    /\ sp[last.a] = EmptyPtr
    /\ ExpiredOn(last.b) /\ rc[wp[last.b].m_pi].m_weak_count = 1

\* C10: the scenario, step by step: create A over X (strong 1, weak 1); copy A
\* into B (strong 2); weak W from A (weak 2); destroy A (strong 1, X not
\* disposed); destroy B (strong 0, X disposed, weak 1, block not freed);
\* W.expired() is true; W.lock() is empty and changes no count; destroy W
\* (weak 0, block freed).
Counts(b, strong, weak) ==
    rc[b].m_use_count = strong /\ rc[b].m_weak_count = weak

C10_Scenario ==
    /\ scen = 1 => Live(1) /\ rc[1].m_ptr = 1 /\ Counts(1, 1, 1)
                   /\ disposed[1] = 0 /\ destroyed[1] = 0
    /\ scen = 2 => Live(1) /\ Counts(1, 2, 1)
                   /\ disposed[1] = 0 /\ destroyed[1] = 0
    /\ scen = 3 => Live(1) /\ Counts(1, 2, 2)
                   /\ disposed[1] = 0 /\ destroyed[1] = 0
    /\ scen = 4 => Live(1) /\ Counts(1, 1, 2)
                   /\ disposed[1] = 0 /\ destroyed[1] = 0
    /\ scen = 5 => Live(1) /\ Counts(1, 0, 1)
                   /\ disposed[1] = 1 /\ destroyed[1] = 0
                   /\ expired(1) = {[trap |-> FALSE, val |-> TRUE]}
    /\ scen = 6 => Live(1) /\ Counts(1, 0, 1)
                   /\ disposed[1] = 1 /\ destroyed[1] = 0
                   /\ sp[1] = EmptyPtr /\ fault = "none"
    /\ scen = 7 => rc[1].state = "freed" /\ Counts(1, 0, 0)
                   /\ disposed[1] = 1 /\ destroyed[1] = 1

C10_Witness == scen = Len(Scenario)

\* ----------------------------------------------------------- claims C11..

\* A step of an operation of a weak pointer other than a lock() that returns a
\* pointer: the operations of weak_ptr leave every shared pointer as it is,
\* and a lock() that fails makes a new empty one.
WeakOnlyOp ==
    \/ sp' = sp
    \/ \E s \in SharedIds : FreeShared(s) /\ sp' = [sp EXCEPT ![s] = EmptyPtr]

\* C11: weak pointers do not extend the life of the pointee: however many
\* weak pointers a control block has, the operation that releases its last
\* shared pointer disposes the pointee, and no operation of a weak pointer
\* other than a lock() that returns a pointer changes a strong count or
\* disposes anything.
C11_WeakDoesNotExtendLife ==
    [][/\ \A b \in Blocks :
            Live(b) /\ SharedOn(b) # {} /\ SharedOn(b)' = {}
                /\ disposed[rc[b].m_ptr] = 0
            => disposed'[rc[b].m_ptr] = 1
       /\ WeakOnlyOp =>
            /\ disposed' = disposed
            /\ \A b \in Blocks :
                  Live(b) /\ Live(b)' =>
                      rc'[b].m_use_count = rc[b].m_use_count
      ]_vars

C11_Witness ==
    /\ last.op = "~shared_ptr"
    /\ Live(1) /\ SharedOn(1) = {} /\ Cardinality(WeakOn(1)) = NumWeak
    /\ disposed[rc[1].m_ptr] = 1 /\ rc[1].m_use_count = 0

\* C12: an aliasing shared pointer built from a source and another address
\* holds the control block of the source, whose strong count is one greater,
\* and get() on it is the address given; destroying either of the two while
\* the other is live takes one off the strong count and disposes nothing.
C12_AliasSharesLifetime ==
    [][/\ \A s \in SharedIds, src \in SharedIds, a \in Addrs :
            /\ FreeShared(s) /\ sp[src].alive /\ sp[src].m_pi # NullPi
            /\ Live(sp[src].m_pi) /\ a # sp[src].m_ptr
            /\ SharedAlias(s, src, a)
            => /\ sp'[s].alive /\ sp'[s].m_pi = sp[src].m_pi
               /\ sp'[s].m_ptr = a
               /\ rc'[sp[src].m_pi].m_use_count
                      = rc[sp[src].m_pi].m_use_count + 1
               /\ disposed' = disposed
       /\ \A s \in SharedIds, t \in SharedIds :
            /\ s # t /\ sp[s].alive /\ sp[t].alive
            /\ sp[s].m_pi # NullPi /\ sp[s].m_pi = sp[t].m_pi
            /\ Live(sp[s].m_pi) /\ sp[s].m_ptr # sp[t].m_ptr
            /\ ~sp'[s].alive /\ sp'[t] = sp[t]
            => /\ rc'[sp[s].m_pi].state = "live"
               /\ rc'[sp[s].m_pi].m_use_count + 1
                      = rc[sp[s].m_pi].m_use_count
               /\ disposed' = disposed
      ]_vars

\* C13: a dynamic_pointer_cast whose type check fails returns a shared pointer
\* with no control block and a null address and leaves every count as it
\* was; one whose check succeeds returns a shared pointer on the control block
\* of the source, whose strong count is one greater.
C13_DynamicCast ==
    [][\A s \in SharedIds, src \in SharedIds, a \in Addrs :
          FreeShared(s) /\ sp[src].alive /\ DynamicCast(s, src, a) =>
              IF a = NullPtr
              THEN sp'[s] = EmptyPtr /\ rc' = rc
              ELSE sp[src].m_pi # NullPi /\ Live(sp[src].m_pi) =>
                     /\ sp'[s] = Ptr(sp[src].m_pi, a)
                     /\ rc'[sp[src].m_pi].m_use_count
                            = rc[sp[src].m_pi].m_use_count + 1
                     /\ rc'[sp[src].m_pi].m_weak_count
                            = rc[sp[src].m_pi].m_weak_count
      ]_vars

\* The shared and weak pointers there are, as values [alive, m_pi, m_ptr].
Handles ==
    {sp[s] : s \in {t \in SharedIds : sp[t].alive}}
        \cup {wp[w] : w \in {v \in WeakIds : wp[v].alive}}

Unordered(x, y) == ~owner_before(x, y) /\ ~owner_before(y, x)

\* C14: owner_before over shared and weak pointers is a strict weak ordering
\* by control block alone: irreflexive, asymmetric, transitive, with unordered
\* pairs transitive; two pointers on one control block are not ordered either
\* way, and no result depends on the addresses observed.
C14_OwnerBeforeStrictWeak ==
    \A x \in Handles, y \in Handles :
        /\ ~owner_before(x, x)
        /\ owner_before(x, y) => ~owner_before(y, x)
        /\ x.m_pi = y.m_pi => Unordered(x, y)
        /\ \A z \in Handles :
              /\ owner_before(x, y) /\ owner_before(y, z) => owner_before(x, z)
              /\ Unordered(x, y) /\ Unordered(y, z) => Unordered(x, z)
              /\ x.m_pi = y.m_pi =>
                    /\ owner_before(x, z) = owner_before(y, z)
                    /\ owner_before(z, x) = owner_before(z, y)

C14_Witness ==
    /\ fault = "none"
    /\ \E x \in Handles, y \in Handles, z \in Handles :
          owner_before(x, y) /\ owner_before(y, z) /\ owner_before(x, z)
    /\ \E x \in Handles, y \in Handles :
          /\ x.m_pi = y.m_pi /\ x.m_pi # NullPi
          /\ x.m_ptr # y.m_ptr /\ Unordered(x, y)

\* C15 as stated: no two live control blocks hold the same pointee.
C15_OnePointeeOneBlock ==
    \A b \in Blocks, c \in Blocks :
        b # c /\ Live(b) /\ Live(c) /\ rc[b].m_ptr # NullPtr
            => rc[b].m_ptr # rc[c].m_ptr

\* C15 amended: as long as every raw pointer handed to a constructor or to
\* reset(ptr) is one the caller has relinquished (no live control block holds
\* it, no unique pointer owns it), no two live control blocks hold the same
\* pointee.
C15_OneBlockForRelinquished ==
    fault # "adopted_owned" => C15_OnePointeeOneBlock

C15_Witness ==
    /\ fault = "none" /\ last.op = "shared_ptr(unique_ptr&&)"
    /\ Live(1) /\ Live(2)
    /\ rc[1].m_ptr # NullPtr /\ rc[2].m_ptr # NullPtr
    /\ rc[1].m_ptr # rc[2].m_ptr
    /\ \A u \in UniqueIds : up[u] = NullPtr

\* C16: construction or assignment of a shared pointer from a unique pointer
\* leaves the unique pointer empty and the shared pointer the one owner: its
\* new control block has strong count 1 and weak count 1, the address is the
\* one adopted, and the object has not been disposed.
C16_AdoptFromUnique ==
    [][/\ \A s \in SharedIds, u \in UniqueIds :
            FreeShared(s) /\ SharedFromUnique(s, u) =>
                /\ up'[u] = NullPtr
                /\ sp'[s] = Ptr(NewBlock, up[u])
                /\ rc'[NewBlock] = ReferenceCount(up[u])
                /\ disposed' = disposed
       /\ \A d \in SharedIds, u \in UniqueIds :
            sp[d].alive /\ SharedAssignUnique(d, u) =>
                /\ up'[u] = NullPtr
                /\ sp'[d] = Ptr(NewBlock, up[u])
                /\ rc'[NewBlock] = ReferenceCount(up[u])
                /\ up[u] # NullPtr => disposed'[up[u]] = 0
      ]_vars

C16_Witness ==
    /\ fault = "none" /\ last.op = "operator=(unique_ptr&&)"
    /\ up[last.b] = NullPtr
    /\ sp[last.a].m_ptr # NullPtr /\ sp[last.a].m_pi = 2
    /\ rc[2] = ReferenceCount(sp[last.a].m_ptr)
    /\ disposed[sp[last.a].m_ptr] = 0 /\ disposed[rc[1].m_ptr] = 1

\* What reset() and reset(ptr) on shared pointer s release: nothing when s has
\* no control block, else one strong reference of its block, the pointee
\* being disposed if and only if s was the last shared pointer on it.
ReleasesOne(s) ==
    LET b == sp[s].m_pi
        p == rc[b].m_ptr
    IN  IF b = NullPi
        THEN disposed' = disposed /\ destroyed' = destroyed
        ELSE Live(b) =>
               /\ rc'[b].state = "live" =>
                     rc'[b].m_use_count + 1 = rc[b].m_use_count
               /\ p # NullPtr =>
                     disposed'[p] = disposed[p] + (IF SharedOn(b) = {s} THEN 1 ELSE 0)
               /\ \A q \in Pointees : q # p => disposed'[q] = disposed[q]

\* C17: reset() releases one strong reference of the block the pointer held,
\* disposing the pointee if and only if the pointer was the last on it, and
\* leaves the pointer empty; reset(ptr) releases the same and leaves the
\* pointer on a new control block for ptr with strong count 1 and weak
\* count 1; reset() on an empty shared pointer changes nothing.
C17_Reset ==
    [][/\ \A s \in SharedIds :
            sp[s].alive /\ SharedReset(s) =>
                /\ sp'[s] = EmptyPtr
                /\ ReleasesOne(s)
                /\ sp[s] = EmptyPtr => sp' = sp /\ rc' = rc
       /\ \A s \in SharedIds, p \in Pointees :
            sp[s].alive /\ SharedResetPtr(s, p) =>
                /\ sp'[s] = Ptr(NewBlock, p)
                /\ rc'[NewBlock] = ReferenceCount(p)
                /\ ReleasesOne(s)
      ]_vars

\* The control block that the object of control block b keeps alive.
Holds(b) == IF rc[b].m_ptr = NullPtr THEN NullPi ELSE member[rc[b].m_ptr]

\* Control block b is on a cycle of strong references: its object holds a
\* shared pointer on b, or on a block whose object holds one on b.
Cycle(b) ==
    /\ Created(b)
    /\ \/ Holds(b) = b
       \/ Holds(b) # NullPi /\ Holds(b) # b /\ Holds(Holds(b)) = b

\* The control blocks a shared or weak pointer of the program is on or
\* observes the object of.
Direct ==
    {b \in Blocks :
       \/ SharedOn(b) # {} \/ WeakOn(b) # {}
       \/ \E s \in SharedIds : sp[s].alive /\ sp[s].m_ptr = rc[b].m_ptr
       \/ \E w \in WeakIds : wp[w].alive /\ wp[w].m_ptr = rc[b].m_ptr}

\* S and the blocks that the shared pointers inside its objects lead to.
RECURSIVE Closure(_)
Closure(S) ==
    LET T == S \cup ({Holds(b) : b \in S} \ {NullPi})
    IN  IF T = S THEN S ELSE Closure(T)

\* No pointer of the program leads to block b or to its object, directly or
\* through the shared pointers inside objects.
Unreachable(b) == b \notin Closure(Direct)

Leaked(b) ==
    /\ Cycle(b) /\ Unreachable(b)
    /\ Holds(b) # b => Unreachable(Holds(b))

Kept(b) ==
    Live(b) /\ rc[b].m_use_count >= 1 /\ disposed[rc[b].m_ptr] = 0

\* C18: a cycle of strong references is never collected: while the object of
\* a control block holds a shared pointer on the block (or two objects hold
\* one on each other's) the strong count is at least 1, the object is not
\* disposed and the block is not freed; the cycle ends only by the program
\* writing the shared pointer in the object, and once no pointer of the
\* program leads to it, it stays for ever.
C18_CycleNeverCollected ==
    [][\A b \in Blocks :
          /\ Cycle(b) => Kept(b)
          /\ Cycle(b)' => Kept(b)'
          /\ Cycle(b) /\ ~Cycle(b)' => sp' = sp /\ member' # member
          /\ Leaked(b) => Leaked(b)'
      ]_vars

C18_Witness ==
    /\ fault = "none"
    /\ Leaked(1) /\ Holds(1) = 2 /\ Kept(1) /\ Kept(2)
    /\ \A s \in SharedIds : ~sp[s].alive
    /\ \A w \in WeakIds : ~wp[w].alive

\* C19: lock() is expired() and then the locked increment.  While no lock() has
\* had another operation on its control block between its two steps, every
\* non-empty shared pointer that lock() returned refers to a pointee that was
\* not disposed when it was returned; with the release of the last shared
\* pointer between the two steps lock() returns a non-empty shared pointer to
\* a disposed pointee (C19_Witness).
C19_LockCheckThenAct ==
    \A t \in Threads : pend[t].res = "disposed" => overlap

\* One lock() ran undisturbed and returned a shared pointer to the live
\* pointee; another had the last shared pointers released after its test and
\* returned a non-empty shared pointer to the disposed pointee.
C19_Witness ==
    /\ fault = "none"
    /\ \E t \in Threads, u \in Threads :
         /\ pend[t].res = "live"
         /\ pend[u].res = "disposed"
    /\ disposed[First] = 1
    /\ nHeld >= 1
    /\ ReferenceCount_use_count(Heap, First) = 0

\* The strong count is the number of live shared pointers, the pointee is not
\* disposed while one is live, and it is disposed at most once.
CountsSound ==
    /\ fault = "none"
    /\ rc[First].state # "none" => ReferenceCount_use_count(Heap, First) = nHeld
    /\ nHeld >= 1 => disposed[First] = 0 /\ rc[First].state = "live"
    /\ disposed[First] <= 1

\* C20: a change of the strong count is a read and a later write.  While every
\* write has come before any other write since its read (each change as good
\* as one step), between operations use_count() is the number of live shared
\* pointers and the pointee is disposed once, after the last of them; a write
\* of a value read before another write loses an update (C20_Witness).
C20_LostUpdate ==
    Quiescent /\ ~overlap => CountsSound

\* After a lost update: the pointee is disposed while shared pointers on it
\* are live, and use_count() is not their number.
C20_Witness ==
    /\ Quiescent /\ overlap /\ fault = "none"
    /\ nHeld >= 1
    /\ disposed[First] = 1
    /\ rc[First].state = "live"
    /\ ReferenceCount_use_count(Heap, First) # nHeld

\* C21: the weak count of a live control block is the number of live weak
\* pointers on it, plus one while the strong count is above 0; so the block is
\* freed (not live any more) exactly when no shared pointer and no weak
\* pointer is left on it.
C21_WeakCountIsHandlesPlusOne ==
    \A b \in Blocks :
        /\ Live(b) =>
              rc[b].m_weak_count =
                  Cardinality(WeakOn(b)) + (IF rc[b].m_use_count > 0 THEN 1 ELSE 0)
        /\ Created(b) => (Live(b) <=> SharedOn(b) # {} \/ WeakOn(b) # {})

\* C22: release() on a live control block whose strong count is 1 or more (a
\* shared pointer holds it) takes one off the strong count.  When
\* it read 1 the pointee is disposed, then one is taken off the weak count and
\* the block is freed if and only if the weak count read was 1.  When it read
\* more than 1 nothing else changes: nothing is disposed, the weak count stays
\* and the block is not freed.
C22_Release ==
    \A b \in Blocks :
        Live(b) =>
            LET h == release(Heap, b)
                n == rc[b].m_use_count
                w == rc[b].m_weak_count
                p == rc[b].m_ptr
            IN  /\ n >= 1 => h.rc[b].m_use_count = n - 1
                /\ n = 1 =>
                     /\ p # NullPtr => h.disposed[p] = Bump(disposed[p])
                     /\ h.rc[b].m_weak_count = (w + UseCountMod - 1) % UseCountMod
                     /\ (h.rc[b].state = "freed") = (w = 1)
                     /\ h.destroyed[b] = IF w = 1 THEN Bump(destroyed[b]) ELSE destroyed[b]
                /\ n > 1 =>
                     h = [Heap EXCEPT !.rc[b].m_use_count = n - 1]

\* A release has run with the strong count at 2 (a shared pointer destroyed
\* while another and a weak pointer hold the block), and the next release, of
\* the last shared pointer, finds the strong count at 1 and the weak count at 2.
C22_Witness ==
    /\ fault = "none"
    /\ last.op = "~shared_ptr" /\ last.n >= 3
    /\ Live(1) /\ rc[1].m_use_count = 1 /\ rc[1].m_weak_count = 2
    /\ Cardinality(SharedOn(1)) = 1 /\ Cardinality(WeakOn(1)) = 1
    /\ disposed[rc[1].m_ptr] = 0

\* What a call of add_locked_reference leaves but the strong count: the weak
\* count, the pointee and the block as they were.
LockedFrame ==
    /\ rc'[First] = [rc[First] EXCEPT !.m_use_count = rc'[First].m_use_count]
    /\ disposed' = disposed /\ destroyed' = destroyed /\ fault' = fault

AssignEffect(d, t) ==
    LET o == sp[d].m_pi
        kept == o = NullPi \/ rc[o].m_use_count > 1
    IN  IF t = o
        THEN /\ rc' = rc /\ disposed' = disposed /\ destroyed' = destroyed
             /\ member' = member /\ fault' = fault
             /\ sp'[d].m_pi = o
        ELSE /\ fault' = "none"
             /\ sp'[d].m_pi = t
             /\ t # NullPi =>
                  /\ rc'[t].state = "live" /\ rc'[t].m_use_count >= 1
                  /\ disposed'[rc[t].m_ptr] = 0
                  /\ kept => rc'[t].m_use_count = rc[t].m_use_count + 1
             /\ o # NullPi /\ kept =>
                  /\ rc'[o] = [rc[o] EXCEPT !.m_use_count = @ - 1]
                  /\ disposed' = disposed /\ destroyed' = destroyed

\* C24: copy assignment of a shared pointer from a source on another control
\* block counts the new reference before it releases the block held, and holds
\* the new block afterwards; from a source on the same block (itself included)
\* it changes no count and disposes and frees nothing, also at strong count 1.
C24_CopyAssignOrder ==
    [][/\ \A d \in SharedIds, src \in SharedIds :
            SharedAssign(d, src) => AssignEffect(d, sp[src].m_pi)
       /\ \A d \in SharedIds :
            AssignMember(d) => AssignEffect(d, member[sp[d].m_ptr])
      ]_vars

\* After d = d->next on a list of two objects: the first object, which d alone
\* held, is disposed and its block freed in the assignment, and the second,
\* which the first object held, is live and held by d.
C24_Witness ==
    /\ fault = "none"
    /\ last.op = "d = d->next"
    /\ rc[1].state = "freed" /\ disposed[rc[1].m_ptr] = 1
    /\ rc[2].state = "live" /\ rc[2].m_use_count = 2 /\ disposed[rc[2].m_ptr] = 0
    /\ last.a \in SharedOn(2)

\* What the assignment of a pointer on live block t to weak pointer d does to
\* the weak counts.  On the block d holds already: the weak count is as
\* before and the block is not freed.  On another block: one more weak
\* reference on t, which d holds afterwards.
WeakAssignEffect(d, t) ==
    LET o == wp[d].m_pi
    IN  t # NullPi /\ Live(t) =>
            /\ fault' = fault
            /\ rc'[t].state = "live"
            /\ destroyed'[t] = destroyed[t]
            /\ wp'[d].m_pi = t
            /\ rc'[t].m_weak_count = rc[t].m_weak_count + (IF t = o THEN 0 ELSE 1)

\* What every assignment of a pointer on block t to weak pointer d leaves: no
\* shared pointer and no other weak pointer changes, and d holds t.
WeakAssigned(d, t) ==
    /\ wp[d].alive /\ t # NullPi /\ rc[t].state = "live"
    /\ sp' = sp
    /\ \A w \in WeakIds \ {d} : wp'[w] = wp[w]
    /\ wp'[d].m_pi = t

\* C25: the assignment of a shared or weak pointer to a weak pointer adds the
\* new weak reference before it releases the old one: assigned to itself or
\* from a pointer on the same control block, the weak count is the same after
\* the assignment and the block is not freed, also for the only pointer left on
\* an expired block (weak count 1).
C25_WeakAssignOrder ==
    [][/\ \A d \in WeakIds, src \in WeakIds :
            /\ WeakAssigned(d, wp[src].m_pi)
            /\ WeakAssign(d, src) \/ WeakConvAssign(d, src)
            => WeakAssignEffect(d, wp[src].m_pi)
       /\ \A d \in WeakIds, s \in SharedIds :
            /\ WeakAssigned(d, sp[s].m_pi)
            /\ WeakAssignShared(d, s)
            => WeakAssignEffect(d, sp[s].m_pi)
      ]_vars

\* The only pointer left on an expired block, a weak pointer, was assigned to
\* itself: the block is live with weak count 1.
C25_Witness ==
    /\ fault = "none"
    /\ last.op = "operator=(const weak_ptr&)" /\ last.a = last.b
    /\ wp[last.a].m_pi # NullPi
    /\ LET b == wp[last.a].m_pi
       IN  /\ rc[b].state = "live" /\ rc[b].m_use_count = 0 /\ rc[b].m_weak_count = 1
           /\ SharedOn(b) = {} /\ WeakOn(b) = {last.a}

\* The assignment to a weak pointer that Main is in the middle of.
MidAssign == pend[Main].op \in {"weak = shared", "weak = weak"}
AssignSource ==
    IF pend[Main].op = "weak = shared" THEN sp[pend[Main].arg]
    ELSE wp[pend[Main].arg]

\* The observer a weak pointer caches from a source: a shared source's m_ptr,
\* a weak source's lock().get(), null once the source has expired.
ObserverOf(src) ==
    IF src.m_pi # NullPi /\ rc[src.m_pi].m_use_count = 0 THEN NullPtr
    ELSE src.m_ptr

\* C26 (as stated): when a weak pointer is assigned from a shared or weak
\* source of a convertible type, the weak handle is updated before the
\* source's observer address is cached, so that once the observer has been
\* cached the destination already refers to the source's block.
C26_HandleBeforeObserver ==
    MidAssign => wp[pend[Main].reg].m_pi = AssignSource.m_pi

\* C26 (amended): the observer address is read and cached first, with the
\* weak handle and every count as they were; the weak handle is updated by
\* the statement after it, which leaves the cached observer alone.
C26_ObserverBeforeHandle ==
    [][/\ (~MidAssign /\ MidAssign' /\ fault' = "none") =>
            LET d == pend'[Main].reg
                src == IF pend'[Main].op = "weak = shared"
                       THEN sp[pend'[Main].arg] ELSE wp[pend'[Main].arg]
            IN  /\ wp'[d].m_pi = wp[d].m_pi
                /\ wp'[d].m_ptr = ObserverOf(src)
                /\ rc' = rc
       /\ (MidAssign /\ ~MidAssign' /\ fault' = "none") =>
            LET d == pend[Main].reg
                new == AssignSource.m_pi
                old == wp[d].m_pi
            IN  /\ wp'[d].m_ptr = wp[d].m_ptr
                /\ wp'[d].m_pi = new
                /\ \A b \in Blocks :
                     rc'[b].state = "live" =>
                        rc'[b].m_weak_count = rc[b].m_weak_count
                            + (IF b = new /\ old # new THEN 1 ELSE 0)
                            - (IF b = old /\ old # new THEN 1 ELSE 0)]_vars

\* The observer of a live source is cached in a destination whose handle is
\* still on another block or on none.
C26_Witness ==
    /\ MidAssign /\ fault = "none"
    /\ AssignSource.m_pi # NullPi
    /\ wp[pend[Main].reg].m_ptr = AssignSource.m_ptr
    /\ wp[pend[Main].reg].m_ptr # NullPtr
    /\ wp[pend[Main].reg].m_pi # AssignSource.m_pi

\* A shared pointer that comes to life in this step on a control block that
\* did not exist before it.
MadeWithBlock(s) ==
    /\ ~sp[s].alive /\ sp'[s].alive
    /\ sp'[s].m_pi # NullPi
    /\ rc[sp'[s].m_pi].state = "none"

\* C27: a shared pointer constructed from a raw pointer gets a new control
\* block whose strong count is 1 and whose weak count is 1 (the implicit
\* weak reference) with no weak pointer on it; use_count() of the new shared
\* pointer is 1 and unique() is true.
C27_FromRawNewBlock ==
    [][\A s \in SharedIds :
         (MadeWithBlock(s) /\ fault' = "none") =>
            LET b == sp'[s].m_pi
            IN  /\ rc'[b].state = "live"
                /\ rc'[b].m_use_count = 1
                /\ rc'[b].m_weak_count = 1
                /\ rc'[b].m_ptr = sp'[s].m_ptr
                /\ {w \in WeakIds : wp'[w].alive /\ wp'[w].m_pi = b} = {}
                /\ {t \in SharedIds : sp'[t].alive /\ sp'[t].m_pi = b} = {s}
                /\ use_count(s)' = 1
                /\ unique(s)']_vars

\* A second shared pointer was just made from a raw pointer while the first
\* block is shared by a weak pointer.
C27_Witness ==
    /\ last.op = "shared_ptr(U*)" /\ fault = "none"
    /\ sp[last.a].alive /\ unique(last.a)
    /\ rc[sp[last.a].m_pi] = ReferenceCount(last.b)
    /\ WeakOn(sp[last.a].m_pi) = {}
    /\ \E b \in Blocks : b # sp[last.a].m_pi /\ Live(b) /\ WeakOn(b) # {}

\* This step constructs weak pointer w from shared pointer s.
WeakMadeFrom(w, s) ==
    /\ ~wp[w].alive /\ wp'[w].alive
    /\ sp[s].alive /\ sp' = sp
    /\ WeakFromShared(w, s)

\* C28: a weak pointer made from a non-empty shared pointer, by constructor
\* or by weak(), raises the weak count of the block by one and leaves the
\* strong count as it was; made from an empty shared pointer it has no block
\* and no count is touched.
C28_WeakFromShared ==
    [][\A w \in WeakIds, s \in SharedIds :
         WeakMadeFrom(w, s) =>
            LET b == sp[s].m_pi
            IN  IF b = NullPi
                THEN /\ wp'[w].alive /\ wp'[w].m_pi = NullPi
                     /\ rc' = rc /\ fault' = "none"
                     /\ disposed' = disposed /\ destroyed' = destroyed
                ELSE rc[b].state = "live" =>
                     /\ wp'[w].alive /\ wp'[w].m_pi = b
                     /\ wp'[w].m_ptr = sp[s].m_ptr
                     /\ rc'[b].m_weak_count = rc[b].m_weak_count + 1
                     /\ rc'[b].m_use_count = rc[b].m_use_count
                     /\ \A c \in Blocks \ {b} : rc'[c] = rc[c]
                     /\ fault' = "none"
                     /\ disposed' = disposed /\ destroyed' = destroyed]_vars

\* One weak pointer was made from a shared pointer with a block, and the last
\* operation made another from an empty shared pointer.
C28_Witness ==
    /\ last.op = "weak_ptr(const shared_ptr&)" /\ fault = "none"
    /\ sp[last.b].alive /\ sp[last.b].m_pi = NullPi
    /\ wp[last.a].alive /\ wp[last.a].m_pi = NullPi
    /\ \E b \in Blocks :
         /\ Live(b) /\ SharedOn(b) # {} /\ WeakOn(b) # {}
         /\ rc[b].m_weak_count = Cardinality(WeakOn(b)) + 1

\* This step is the call a.swap(b) of two shared pointers.
SharedSwapOf(a, b) ==
    /\ sp[a].alive /\ sp[b].alive /\ wp' = wp
    /\ SharedSwap(a, b)

\* This step is the call a.swap(b) of two weak pointers.
WeakSwapOf(a, b) ==
    /\ wp[a].alive /\ wp[b].alive /\ sp' = sp
    /\ WeakSwap(a, b)

SwapLeaves ==
    /\ rc' = rc /\ member' = member
    /\ disposed' = disposed /\ destroyed' = destroyed
    /\ fault' = "none"

\* C29: swap on two shared pointers, or on two weak pointers, exchanges their
\* control-block references and their observer addresses; no count changes
\* and nothing is disposed or freed, and a second swap of the same two
\* restores both.
C29_Swap ==
    [][/\ \A a \in SharedIds, b \in SharedIds :
            SharedSwapOf(a, b) =>
               /\ sp'[a] = sp[b] /\ sp'[b] = sp[a]
               /\ \A c \in SharedIds \ {a, b} : sp'[c] = sp[c]
               /\ wp' = wp
               /\ SwapLeaves
               /\ swapped(sp', a, b) = sp
       /\ \A a \in WeakIds, b \in WeakIds :
            WeakSwapOf(a, b) =>
               /\ wp'[a] = wp[b] /\ wp'[b] = wp[a]
               /\ \A c \in WeakIds \ {a, b} : wp'[c] = wp[c]
               /\ sp' = sp
               /\ SwapLeaves
               /\ swapped(wp', a, b) = wp]_vars

\* A weak pointer on a block was swapped with an empty one: the empty one is
\* first now, the block still counts one weak pointer.
C29_Witness ==
    /\ last.op = "swap(weak_ptr&)" /\ fault = "none"
    /\ wp[last.a].alive /\ wp[last.a].m_pi = NullPi
    /\ wp[last.b].alive /\ wp[last.b].m_pi # NullPi
    /\ last.a < last.b
    /\ rc[wp[last.b].m_pi].m_weak_count = 2
    /\ wp[last.b].m_ptr = rc[wp[last.b].m_pi].m_ptr

\* C30: after any sequence of public operations every live shared pointer
\* with a control block refers to a block that is not freed and whose pointee
\* is not disposed, and every live weak pointer with a control block refers
\* to a block that is not freed: no handle dangles.
C30_NoHandleDangles ==
    /\ \A s \in SharedIds :
         (sp[s].alive /\ sp[s].m_pi # NullPi) =>
            /\ rc[sp[s].m_pi].state = "live"
            /\ disposed[rc[sp[s].m_pi].m_ptr] = 0
    /\ \A w \in WeakIds :
         (wp[w].alive /\ wp[w].m_pi # NullPi) =>
            rc[wp[w].m_pi].state = "live"

\* ----------------------------------------------------------- claims C31..

\* C31: expiry is permanent: once the strong count of a control block has
\* reached 0 it is 0 in every later state in which the block is still live,
\* so a weak pointer that reported expired() keeps reporting it and lock() on
\* it never again returns a non-empty shared pointer.
C31_ExpiryPermanent ==
    [][\A b \in Blocks :
         (rc[b].state = "live" /\ rc[b].m_use_count = 0 /\ rc'[b].state = "live")
            => rc'[b].m_use_count = 0]_vars

\* The weak pointers on block b: those of the program and those inside
\* objects that are not disposed.
WeakRefs(b) ==
    Cardinality(WeakOn(b)) + Cardinality({p \in Pointees : wmember[p] = b})

\* The pointee of b holds a weak pointer to b and this step disposes it.
SelfHolderDisposed(b) ==
    /\ rc[b].state = "live" /\ rc[b].m_ptr # NullPtr
    /\ wmember[rc[b].m_ptr] = b
    /\ disposed[rc[b].m_ptr] = 0 /\ disposed'[rc[b].m_ptr] > 0

\* C32: when the pointee holds a weak pointer to its own control block, which
\* its destructor releases while release() runs dispose(), the block is not
\* freed during dispose() (release() never touches a freed block after it):
\* it is freed once, in that release when no other weak pointer is on it, and
\* otherwise stays live for those and is freed when the last of them goes.
C32_ReentrantDispose ==
    [][\A b \in Blocks :
            /\ destroyed'[b] <= 1
            /\ SelfHolderDisposed(b) =>
                 /\ fault' = "none"
                 /\ disposed'[rc[b].m_ptr] = 1
                 /\ rc'[b].state = "freed" <=> WeakRefs(b)' = 0
                 /\ rc'[b].state = "live" => rc'[b].m_weak_count = WeakRefs(b)'
            /\ (rc[b].state = "live" /\ rc[b].m_use_count = 0) =>
                 /\ rc'[b].state = "freed" <=> WeakRefs(b)' = 0
                 /\ rc'[b].state = "live" => rc'[b].m_weak_count = WeakRefs(b)']_vars

\* The only shared pointer to an object that held a weak pointer to itself
\* was destroyed: the object is disposed once and its block freed once.
C32_Witness ==
    /\ last.op = "~shared_ptr of self-holder" /\ fault = "none"
    /\ \E b \in Blocks :
         /\ rc[b].state = "freed"
         /\ destroyed[b] = 1 /\ disposed[rc[b].m_ptr] = 1

\* This step may be a move into shared pointer d from shared pointer src.
MoveOf(d, src) ==
    /\ sp[src].alive /\ wp' = wp
    /\ sp'[d].alive /\ sp'[d].m_pi = sp[src].m_pi

NothingReleased ==
    /\ rc' = rc
    /\ disposed' = disposed /\ destroyed' = destroyed
    /\ fault' = "none"

\* One strong reference on block o is released in this step, o live with a
\* strong count of at least 1.
OneReleased(o) ==
    /\ \A b \in Blocks \ {o} : rc'[b] = rc[b]
    /\ rc'[o].state = "live" => rc'[o].m_use_count = rc[o].m_use_count - 1
    /\ IF rc[o].m_use_count = 1
       THEN /\ disposed'[rc[o].m_ptr] = Bump(disposed[rc[o].m_ptr])
            /\ rc'[o].state = "freed" <=> rc[o].m_weak_count = 1
       ELSE /\ disposed' = disposed /\ destroyed' = destroyed
            /\ rc'[o].state = "live"
            /\ rc'[o].m_weak_count = rc[o].m_weak_count

\* C34: a move constructor or move assignment of shared pointers hands the
\* control-block reference of the source to the destination with the counts
\* of that block as they were and leaves the source empty (no block, null
\* observer, use_count 0); move assignment also releases one strong reference
\* on the block the destination held before, and a shared pointer moved to
\* itself keeps its block with the counts unchanged and nothing disposed.
C34_Move ==
    [][/\ \A s \in SharedIds, src \in SharedIds :
            (MoveOf(s, src) /\ SharedMove(s, src)) =>
               /\ sp'[s] = [sp[src] EXCEPT !.alive = TRUE]
               /\ sp'[src].alive
               /\ sp'[src].m_pi = NullPi /\ sp'[src].m_ptr = NullPtr
               /\ use_count(src)' = 0
               /\ NothingReleased
       /\ \A d \in SharedIds, src \in SharedIds :
            (MoveOf(d, src) /\ SharedMoveAssign(d, src)) =>
               IF d = src
               THEN sp' = sp /\ NothingReleased
               ELSE /\ sp'[d] = sp[src]
                    /\ sp'[src].alive
                    /\ sp'[src].m_pi = NullPi /\ sp'[src].m_ptr = NullPtr
                    /\ use_count(src)' = 0
                    /\ sp[d].m_pi = NullPi => NothingReleased
                    /\ (/\ sp[d].m_pi # NullPi
                        /\ rc[sp[d].m_pi].state = "live"
                        /\ rc[sp[d].m_pi].m_use_count >= 1) =>
                          OneReleased(sp[d].m_pi)]_vars

\* A shared pointer alone on its block was move-assigned from a shared
\* pointer on another block: its old pointee is disposed and its old block
\* freed, it holds the block of the source and the source is empty.
C34_Witness ==
    /\ last.op = "operator=(shared_ptr&&)" /\ fault = "none"
    /\ last.a # last.b
    /\ sp[last.b] = EmptyPtr
    /\ sp[last.a].m_pi # NullPi
    /\ rc[sp[last.a].m_pi].state = "live"
    /\ rc[sp[last.a].m_pi].m_use_count = 1
    /\ \E o \in Blocks : rc[o].state = "freed" /\ disposed[rc[o].m_ptr] = 1

\* C33: a control block is never freed before its pointee has been disposed:
\* a freed block had its pointee disposed exactly once and was freed once,
\* and no count of a block is read or written after the block has been freed.
C33_DisposedBeforeFreed ==
    /\ \A b \in Blocks :
         rc[b].state = "freed" =>
            /\ disposed[rc[b].m_ptr] = 1
            /\ destroyed[b] = 1
    /\ fault # "use_after_free"

\* This step may be one that gives weak pointer w the block of weak pointer
\* src, a live one.
ConvertedFrom(w, src) ==
    /\ wp[src].alive /\ wp[src].m_pi # NullPi
    /\ rc[wp[src].m_pi].state = "live"
    /\ sp' = sp
    /\ wp'[w].alive /\ wp'[w].m_pi = wp[src].m_pi

\* The temporary wp.lock() taken in memory h on a source with strong count n
\* on block b: while it lives the strong count is n + 1, and it holds b.
TemporaryLock(h, src, b, n) ==
    \A o \in lock(h, wp[src]) :
       /\ o.res.m_pi = b
       /\ o.h.rc[b].m_use_count = n + 1
       /\ o.h.disposed = disposed

\* No temporary is made in memory h from an expired source: lock() gives an
\* empty shared pointer and no count is written.
NoTemporaryLock(h, src) ==
    \A o \in lock(h, wp[src]) :
       /\ o.res.m_pi = NullPi /\ o.res.m_ptr = NullPtr
       /\ o.h.rc = h.rc

\* What the conversion leaves of source block b, whose strong count was n:
\* the count back at n, nothing disposed, the observer of w the address the
\* lock gave, or null and no strong count changed if the source was expired.
ConvertedEffect(w, src, b, n) ==
    /\ fault' = "none"
    /\ wp'[w].alive /\ wp'[w].m_pi = b
    /\ \A c \in Blocks : rc'[c].m_use_count = rc[c].m_use_count
    /\ disposed' = disposed
    /\ wp'[w].m_ptr = IF n > 0 THEN wp[src].m_ptr ELSE NullPtr

\* C35: a weak pointer constructed or assigned from a non-expired weak
\* pointer of a convertible type takes a temporary lock on the source: the
\* strong count is one higher while the temporary lives and back at its
\* value when the operation is done, the temporary disposes nothing, the weak
\* count ends one higher for construction and the cached observer is the
\* locked address; from an expired source the cached observer is null and no
\* strong count changes.
C35_ConvertingWeakCopy ==
    [][\A w \in WeakIds, src \in WeakIds :
         LET b == wp[src].m_pi
             n == rc[b].m_use_count
         IN  /\ (ConvertedFrom(w, src) /\ WeakConvCopy(w, src)) =>
                    /\ IF n > 0
                       THEN TemporaryLock(WeakCountCopy(Heap, b), src, b, n)
                       ELSE NoTemporaryLock(WeakCountCopy(Heap, b), src)
                    /\ ConvertedEffect(w, src, b, n)
                    /\ rc'[b].m_weak_count = rc[b].m_weak_count + 1
             /\ (ConvertedFrom(w, src) /\ WeakConvAssign(w, src)) =>
                    /\ IF n > 0
                       THEN TemporaryLock(Heap, src, b, n)
                       ELSE NoTemporaryLock(Heap, src)
                    /\ ConvertedEffect(w, src, b, n)]_vars

\* Shared pointer s is without a control block after this step, which is one
\* of: shared_ptr(), reset(), a move out of s, a failed dynamic_pointer_cast
\* into s, lock() into s on a weak pointer that is expired (its block has no
\* strong reference, or it has no block).
MadeEmpty(s) ==
    /\ wp' = wp
    /\ sp'[s].alive /\ sp'[s].m_pi = NullPi
    /\ \/ SharedDefault(s)
       \/ SharedReset(s)
       \/ \E d \in SharedIds : SharedMove(d, s)
       \/ \E d \in SharedIds \ {s} : SharedMoveAssign(d, s)
       \/ \E src \in SharedIds : DynamicCast(s, src, NullPtr)
       \/ \E w \in WeakIds :
            /\ wp[w].m_pi # NullPi => rc[wp[w].m_pi].m_use_count = 0
            /\ WeakLock(s, w)

\* C36: a shared pointer left without a control block by default or nullptr
\* construction, reset(), a move out of it, a failed dynamic_pointer_cast or
\* lock() on an expired weak pointer is fully empty: get() is null, the
\* boolean test is false, use_count() is 0 and unique() is false, and its
\* destruction changes no count of any control block.
C36_EmptyIsFullyEmpty ==
    [][\A s \in SharedIds :
         /\ MadeEmpty(s) =>
               /\ get(s)' = NullPtr
               /\ ~operator_bool(s)'
               /\ use_count(s)' = 0
               /\ ~unique(s)'
         /\ (sp[s].alive /\ sp[s].m_pi = NullPi /\ ~sp'[s].alive
             /\ SharedDtor(s)) =>
               /\ rc' = rc /\ fault' = "none"
               /\ disposed' = disposed /\ destroyed' = destroyed]_vars

\* This step is the call of member function op on the block First.
CallOf(op) == last'.n = last.n + 1 /\ last'.op = op

\* C37: the strong and the weak count are 16-bit unsigned and their
\* increments are unchecked: add_copied_reference() takes a strong count of
\* 65535 to 0 and add_weak_reference() a weak count of 65535 to 0, with no
\* saturation and no error, so the counts follow the number of handles only
\* modulo 2^16.
C37_IncrementsWrap ==
    [][/\ CallOf("add_copied_reference") =>
            /\ rc'[First] = [rc[First] EXCEPT
                               !.m_use_count = (@ + 1) % (2 ^ UseCountBits)]
            /\ rc[First].m_use_count = 2 ^ UseCountBits - 1
                  => rc'[First].m_use_count = 0
            /\ fault' = "none"
            /\ disposed' = disposed /\ destroyed' = destroyed
       /\ CallOf("add_weak_reference") =>
            /\ rc'[First] = [rc[First] EXCEPT
                               !.m_weak_count = (@ + 1) % (2 ^ UseCountBits)]
            /\ rc[First].m_weak_count = 2 ^ UseCountBits - 1
                  => rc'[First].m_weak_count = 0
            /\ fault' = "none"
            /\ disposed' = disposed /\ destroyed' = destroyed]_vars

\* add_copied_reference() has taken the strong count of a block whose pointee
\* was never disposed to 0.
C37_Witness ==
    /\ last.op = "add_copied_reference" /\ fault = "none"
    /\ rc[First].state = "live"
    /\ rc[First].m_use_count = 0
    /\ disposed[rc[First].m_ptr] = 0

====
